---- MODULE Spec2Model ----
(***************************************************************************)
(* A model of the price cache of YGODecklistTool                           *)
(* (src/YGODecklistTool/src/pricing/ygopro_prices.py): the RateLimiter,    *)
(* one _request_payload call with its retry loop, and one ensure_prices    *)
(* refresh cycle over a price cache.                                       *)
(*                                                                         *)
(* Several specifications share the module:                                *)
(*   SpecLimiter  callers of RateLimiter.wait(), statement by statement    *)
(*   SpecRequest  one _request_payload call, attempt by attempt            *)
(*   Spec         one ensure_prices cycle, one loop iteration per step     *)
(*   SpecCycles   ensure_prices cycles one after another on one cache      *)
(*   SpecPure     calls of normalize_passcode, parse_cardmarket_price and  *)
(*                is_stale on inputs drawn from bounded sets               *)
(*   SpecSave     save_price_cache_atomic and load_price_cache on a file   *)
(*                system that may lose power between any two steps         *)
(*   SpecResolve  resolve_card_id calls on one name cache                  *)
(*   SpecDeck     calls of the deck functions: canonical sort, rarity       *)
(*                hierarchy selection and the upgrade split                 *)
(*   SpecApp      DeckApp's add, update, delete, load and column sort       *)
(*                                                                         *)
(* Monotonic time is counted in units of 0.1 s, wall-clock time in days.   *)
(***************************************************************************)
EXTENDS Integers, Sequences, FiniteSets, TLC

VARIABLES
    mono,        \* SpecLimiter: time.monotonic(), in units of 0.1 s
    limiter,     \* SpecLimiter: the RateLimiter object shared by the callers
    thr,         \* SpecLimiter: each caller's position in wait() and its locals
    lastReturn,  \* SpecLimiter: instant of the latest return of wait(), or NoTime
    minGap,      \* SpecLimiter: least distance seen between consecutive returns
    everSlept,   \* SpecLimiter: whether any wait() has called time.sleep
    rq,          \* SpecRequest: the frame of one _request_payload call
    cache,       \* Spec: the price cache dict handed to ensure_prices
    today,       \* Spec: datetime.now(timezone.utc), in days
    cy,          \* Spec: the frame of the ensure_prices call
    pf,          \* SpecPure: the latest call of a pure function and its result
    disk,        \* SpecSave: the files at the cache path and the frame of the save
    rs,          \* SpecResolve: the name cache and the frame of resolve_card_id
    app          \* SpecApp: DeckApp's model, its tree rows and its sort state

limiterVars == <<mono, limiter, thr, lastReturn, minGap, everSlept>>
cycleVars == <<cache, today, cy>>
extraVars == <<pf, disk, rs, app>>
vars == <<mono, limiter, thr, lastReturn, minGap, everSlept, rq, cache, today, cy,
          pf, disk, rs, app>>

Max(a, b) == IF a >= b THEN a ELSE b

(***************************************************************************)
(* Bounds of the model.                                                    *)
(***************************************************************************)
MaxRaw == 2          \* Spec: every list of at most MaxRaw raw ids is an input
MaxDayTicks == 1     \* Spec: days that may pass before and during the cycle
MaxMono == 6        \* SpecLimiter runs while time.monotonic() <= MaxMono
MaxText == 3         \* SpecPure: every text of at most MaxText characters is an input
MaxDeck == 3         \* SpecDeck: every list of at most MaxDeck entries (or labels) is an input
MaxWeight == 7       \* SpecDeck: current_weight ranges over 0..MaxWeight

(***************************************************************************)
(* Units.                                                                  *)
(***************************************************************************)
UnitsPerSecond == 2 * 5   \* one unit of monotonic time is 0.1 s

NoTime == 0 - 1
NoGap == 0 - 1

(***************************************************************************)
(* RateLimiter                                                             *)
(***************************************************************************)
\* max_per_second values a limiter of SpecLimiter is built with: intervals of
\* 0, 0, 0.2 s and 0.1 s.
MaxPerSecondChoices == {0 - 1, 0, 5, 10}

\* RateLimiter.__init__: interval = 1.0 / max_per_second if max_per_second > 0 else 0.0
LimiterInterval(max_per_second) ==
    IF max_per_second > 0 THEN UnitsPerSecond \div max_per_second ELSE 0

NewRateLimiter(max_per_second) ==
    [max_per_second |-> max_per_second,
     interval |-> LimiterInterval(max_per_second),
     next_allowed |-> 0]

\* A mutant of LimiterNextAllowed: the threshold is advanced from the instant
\* read before the sleep instead of from a fresh time.monotonic().
LimiterNextAllowedStale(now, clock, interval) == now + interval

\* wait(), line 47: self._next_allowed = time.monotonic() + self._interval
LimiterNextAllowed(now, clock, interval) == clock + interval

\* wait(), line 45: if self._next_allowed > now
LimiterMustSleep(next_allowed, now) == next_allowed > now

\* wait(), line 46: the argument of time.sleep
LimiterSleepFor(next_allowed, now) == next_allowed - now

\* How many threads share one limiter in a run of SpecLimiter.
CallerCounts == {1, 2}

ThreadIdle == [pc |-> "idle", now |-> 0, until |-> 0]

\* A return of wait() at the current instant.
NoteReturn ==
    /\ lastReturn' = mono
    /\ minGap' = IF lastReturn = NoTime THEN minGap
                 ELSE IF minGap = NoGap THEN mono - lastReturn
                 ELSE IF mono - lastReturn < minGap THEN mono - lastReturn
                 ELSE minGap

\* wait(), lines 42-44: a disabled limiter returns at once; otherwise the
\* caller reads the clock into its local `now`.
WaitCall(c) ==
    /\ thr[c].pc = "idle"
    /\ IF limiter.interval <= 0
       THEN /\ NoteReturn
            /\ UNCHANGED thr
       ELSE /\ thr' = [thr EXCEPT ![c] = [pc |-> "check", now |-> mono, until |-> 0]]
            /\ UNCHANGED <<lastReturn, minGap>>
    /\ UNCHANGED <<mono, limiter, everSlept, rq, cache, today, cy, extraVars>>

\* wait(), line 45: the comparison of the shared threshold with `now`.
WaitCheck(c) ==
    /\ thr[c].pc = "check"
    /\ thr' = [thr EXCEPT ![c].pc =
                  IF LimiterMustSleep(limiter.next_allowed, thr[c].now)
                  THEN "sleep" ELSE "update"]
    /\ UNCHANGED <<mono, limiter, lastReturn, minGap, everSlept, rq, cache, today, cy, extraVars>>

\* wait(), line 46: time.sleep(self._next_allowed - now) begins; the
\* threshold is read again for the subtraction.
WaitSleep(c) ==
    /\ thr[c].pc = "sleep"
    /\ thr' = [thr EXCEPT ![c].pc = "sleeping",
                          ![c].until = mono + LimiterSleepFor(limiter.next_allowed, thr[c].now)]
    /\ everSlept' = TRUE
    /\ UNCHANGED <<mono, limiter, lastReturn, minGap, rq, cache, today, cy, extraVars>>

\* time.sleep returns once at least the requested time has passed.
WaitWake(c) ==
    /\ thr[c].pc = "sleeping"
    /\ mono >= thr[c].until
    /\ thr' = [thr EXCEPT ![c].pc = "update"]
    /\ UNCHANGED <<mono, limiter, lastReturn, minGap, everSlept, rq, cache, today, cy, extraVars>>

\* wait(), line 47, and the return.
WaitUpdate(c) ==
    /\ thr[c].pc = "update"
    /\ limiter' = [limiter EXCEPT !.next_allowed =
                      LimiterNextAllowed(thr[c].now, mono, limiter.interval)]
    /\ thr' = [thr EXCEPT ![c] = ThreadIdle]
    /\ NoteReturn
    /\ UNCHANGED <<mono, everSlept, rq, cache, today, cy, extraVars>>

\* The monotonic clock advances.
MonoTick ==
    /\ mono < MaxMono
    /\ mono' = mono + 1
    /\ UNCHANGED <<limiter, thr, lastReturn, minGap, everSlept, rq, cache, today, cy, extraVars>>

(***************************************************************************)
(* Python values.  Optional[str] is a string or PyNone; text that the      *)
(* code parses is a sequence of characters.                                *)
(***************************************************************************)
PyNone == "<None>"

Digits == <<"0", "1", "2", "3", "4", "5", "6", "7", "8", "9">>

IsDigit(c) == \E i \in 1..10 : Digits[i] = c

DigitValue(c) == (CHOOSE i \in 1..10 : Digits[i] = c) - 1

IsSpace(c) == c = " "

RECURSIVE LStrip(_)
LStrip(s) == IF s # <<>> /\ IsSpace(Head(s)) THEN LStrip(Tail(s)) ELSE s

RECURSIVE RStrip(_)
RStrip(s) ==
    IF s # <<>> /\ IsSpace(s[Len(s)]) THEN RStrip(SubSeq(s, 1, Len(s) - 1)) ELSE s

\* str.strip()
Strip(s) == RStrip(LStrip(s))

AllDigits(s) == s # <<>> /\ \A i \in 1..Len(s) : IsDigit(s[i])

RECURSIVE DigitsToNat(_)
DigitsToNat(s) ==
    IF s = <<>> THEN 0
    ELSE 10 * DigitsToNat(SubSeq(s, 1, Len(s) - 1)) + DigitValue(s[Len(s)])

(***************************************************************************)
(* parse_cardmarket_price.  A price is a number of cents; NoPrice is the   *)
(* None that parse_cardmarket_price returns.  The raw field is absent or   *)
(* null (both read as None by dict.get), a JSON string, a JSON number, or  *)
(* a JSON value of another type.                                           *)
(***************************************************************************)
NoPrice == [ok |-> FALSE, cents |-> 0]
SomePrice(c) == [ok |-> TRUE, cents |-> c]

RawNone == [t |-> "none", s |-> <<>>, v |-> 0]
RawStr(s) == [t |-> "str", s |-> s, v |-> 0]
RawNum(c) == [t |-> "num", s |-> <<>>, v |-> c]
RawOther == [t |-> "other", s |-> <<>>, v |-> 0]

\* The digits of a decimal fraction with at most two places, as cents.
FractionCents(f) ==
    IF Len(f) = 0 THEN 0
    ELSE IF Len(f) = 1 THEN 10 * DigitValue(f[1])
    ELSE DigitsToNat(f)

\* float(text) for text of the form [ws][+-]digits[.digits][ws], with at
\* most two fraction digits: the value in cents, or NoPrice for ValueError.
ParseFloatText(text) ==
    LET s == Strip(text)
        signed == s # <<>> /\ s[1] \in {"+", "-"}
        body == IF signed THEN Tail(s) ELSE s
        dots == {i \in 1..Len(body) : body[i] = "."}
        dot == IF dots = {} THEN Len(body) + 1 ELSE CHOOSE i \in dots : TRUE
        ip == SubSeq(body, 1, dot - 1)
        fp == SubSeq(body, dot + 1, Len(body))
        wellFormed ==
            /\ Cardinality(dots) <= 1
            /\ ip # <<>> \/ fp # <<>>
            /\ \A i \in 1..Len(ip) : IsDigit(ip[i])
            /\ \A i \in 1..Len(fp) : IsDigit(fp[i])
            /\ Len(fp) <= 2
        magnitude == 100 * DigitsToNat(ip) + FractionCents(fp)
    IN  IF ~wellFormed THEN NoPrice
        ELSE SomePrice(IF signed /\ s[1] = "-" THEN 0 - magnitude ELSE magnitude)

\* A mutant of ParseCardmarketPrice: only None maps to 0.0, the empty text
\* and "N/A" go to float().
ParseCardmarketPriceNoSentinel(raw) ==
    IF raw.t = "none" THEN SomePrice(0)
    ELSE IF raw.t = "str" THEN ParseFloatText(raw.s)
    ELSE IF raw.t = "num" THEN SomePrice(raw.v)
    ELSE NoPrice

\* parse_cardmarket_price, lines 247-253
ParseCardmarketPrice(raw) ==
    IF raw.t = "none" \/ (raw.t = "str" /\ raw.s \in {<<>>, <<"N", "/", "A">>})
    THEN SomePrice(0)
    ELSE IF raw.t = "str" THEN ParseFloatText(raw.s)
    ELSE IF raw.t = "num" THEN SomePrice(raw.v)
    ELSE NoPrice

(***************************************************************************)
(* What one session.get can produce: a requests exception, or a response   *)
(* with a status, a Retry-After header and a body.                         *)
(***************************************************************************)
\* Retry-After header values: none, "", text that is neither a number nor a
\* date, a number of seconds, an HTTP date v units from now, and a number
\* beyond what time.sleep accepts ("inf", "1e30").
HdrAbsent == [t |-> "absent", v |-> 0]
HdrEmpty == [t |-> "empty", v |-> 0]
HdrJunk == [t |-> "junk", v |-> 0]
HdrSecs(n) == [t |-> "secs", v |-> n]
HdrDate(d) == [t |-> "date", v |-> d]
HdrHuge == [t |-> "huge", v |-> 0]

RetryAfterHeaders ==
    {HdrAbsent, HdrEmpty, HdrJunk, HdrHuge}
        \cup {HdrSecs(n) : n \in {0 - 1, 0, 1}}
        \cup {HdrDate(d) : d \in {0 - 7, 7}}

\* Optional[float] delays: None, a finite number of units, or +inf.
NoDelay == [t |-> "none", v |-> 0]
Delay(v) == [t |-> "some", v |-> v]
InfDelay == [t |-> "inf", v |-> 0]

\* _parse_retry_after, lines 220-236, for the response of an HTTPError
ParseRetryAfter(hdr) ==
    IF hdr.t \in {"absent", "empty"} THEN NoDelay        \* if not value
    ELSE IF hdr.t = "secs" THEN Delay(Max(0, hdr.v * UnitsPerSecond))
    ELSE IF hdr.t = "huge" THEN InfDelay                  \* max(0.0, inf)
    ELSE IF hdr.t = "date" THEN Delay(Max(0, hdr.v))      \* parsed - now
    ELSE NoDelay                                          \* both parses fail

RECURSIVE Pow2(_)
Pow2(n) == IF n = 0 THEN 1 ELSE 2 * Pow2(n - 1)

\* random.uniform(0, 0.2), line 243, in units of 0.1 s
Jitters == 0..2

\* _sleep_backoff, lines 239-244: the argument of time.sleep
SleepBackoff(attempt, retry_after, jitter) ==
    IF retry_after.t # "none" THEN retry_after
    ELSE Delay(5 * Pow2(attempt) + jitter)

(***************************************************************************)
(* JSON bodies.  A payload is the dict of a 200 response; a card is        *)
(* data[0]; a price entry is card_prices[0].                               *)
(***************************************************************************)
NoRaw == RawOther

PeNotDict == [t |-> "notdict", empty |-> FALSE, has |-> FALSE, raw |-> NoRaw]
PeEmpty == [t |-> "dict", empty |-> TRUE, has |-> FALSE, raw |-> NoRaw]
\* a price entry that has other vendors' prices but no cardmarket_price key
PeNoField == [t |-> "dict", empty |-> FALSE, has |-> FALSE, raw |-> NoRaw]
PeWith(raw) == [t |-> "dict", empty |-> FALSE, has |-> TRUE, raw |-> raw]

\* price_entry.get("cardmarket_price")
PeGet(pe) == IF pe.has THEN pe.raw ELSE RawNone

PricesAbsent == [t |-> "absent", items |-> <<>>]
PricesNotList == [t |-> "notlist", items |-> <<>>]
PricesList(items) == [t |-> "list", items |-> items]

NameAbsent == [t |-> "absent", v |-> ""]
NameNotStr == [t |-> "notstr", v |-> ""]
NameStr(v) == [t |-> "str", v |-> v]

IdAbsent == [t |-> "absent", v |-> 0]
IdInt(v) == [t |-> "int", v |-> v]

CardNotDict ==
    [t |-> "notdict", id |-> IdAbsent, name |-> NameAbsent, card_prices |-> PricesAbsent]
Card(id, name, prices) ==
    [t |-> "dict", id |-> id, name |-> name, card_prices |-> prices]

DataAbsent == [t |-> "absent", items |-> <<>>]
DataNotList == [t |-> "notlist", items |-> <<>>]
DataList(items) == [t |-> "list", items |-> items]

\* {} and a dict with the given "data" (DataAbsent: a dict of other keys)
PayloadEmpty == [empty |-> TRUE, data |-> DataAbsent]
Payload(data) == [empty |-> FALSE, data |-> data]
NoPayload == [empty |-> TRUE, data |-> DataNotList]

PriceTexts ==
    {<<"1", "2", ".", "3", "4">>, <<"0">>, <<>>, <<"N", "/", "A">>,
     <<"-", "1", ".", "5", "0">>, <<"a", "b", "c">>}

RawPrices == {RawNone, RawNum(250), RawOther} \cup {RawStr(s) : s \in PriceTexts}

GoodName == NameStr("Dark Magician")

CardWithPrices(prices) == Card(IdInt(87), GoodName, prices)

\* The JSON objects a 200 response carries in the model.
Payloads ==
    {PayloadEmpty, Payload(DataAbsent), Payload(DataNotList), Payload(DataList(<<>>)),
     Payload(DataList(<<CardNotDict>>)),
     Payload(DataList(<<Card(IdInt(87), NameAbsent, PricesAbsent)>>)),
     Payload(DataList(<<Card(IdAbsent, NameNotStr, PricesAbsent)>>))}
        \cup {Payload(DataList(<<CardWithPrices(p)>>)) :
                p \in {PricesAbsent, PricesNotList, PricesList(<<>>),
                       PricesList(<<PeNotDict>>), PricesList(<<PeEmpty>>),
                       PricesList(<<PeNoField>>)}}
        \cup {Payload(DataList(<<CardWithPrices(PricesList(<<PeWith(r)>>))>>)) :
                r \in RawPrices}

BodyNone == [t |-> "none", payload |-> NoPayload]
BodyNotJson == [t |-> "notjson", payload |-> NoPayload]
BodyNotObject == [t |-> "notobject", payload |-> NoPayload]
BodyObject(p) == [t |-> "object", payload |-> p]

NetError(kind) == [kind |-> kind, status |-> 0, retry_after |-> HdrAbsent, body |-> BodyNone]
Http(status, hdr, body) ==
    [kind |-> "http", status |-> status, retry_after |-> hdr, body |-> body]
NoResponse == NetError("none")

\* requests.Timeout, requests.ConnectionError, another RequestException
NetErrors == {NetError(k) : k \in {"timeout", "connerr", "reqexc"}}

Responses ==
    NetErrors
        \cup {Http(404, HdrAbsent, BodyNone), Http(400, HdrSecs(1), BodyNone)}
        \cup {Http(st, h, BodyNone) : st \in {429, 500, 503}, h \in RetryAfterHeaders}
        \cup {Http(200, HdrAbsent, b) :
                b \in {BodyNotJson, BodyNotObject} \cup {BodyObject(p) : p \in Payloads}}

(***************************************************************************)
(* _request_payload, lines 179-217.  The frame `rq` holds the loop         *)
(* variable, last_error, the limiter and the clock; gets and sleeps count  *)
(* the session.get calls and the completed backoff sleeps of the call;     *)
(* fetched is what fetch_card_price_by_id makes of the returned payload.   *)
(***************************************************************************)
MAX_RETRIES == 5

\* The result of fetch_card_price_by_id: (name, price), None or None, error.
NoFetch == [t |-> "none", name |-> "", price |-> 0, error |-> PyNone]
FetchOk(name, price) == [t |-> "ok", name |-> name, price |-> price, error |-> PyNone]
FetchFailed(error) == [t |-> "failed", name |-> "", price |-> 0, error |-> error]
\* an exception of _request_payload passes through fetch_card_price_by_id
FetchRaised == [t |-> "raised", name |-> "", price |-> 0, error |-> PyNone]

HttpErrorText(status) ==
    CASE status = 400 -> "HTTP 400"
      [] status = 404 -> "HTTP 404"
      [] status = 429 -> "HTTP 429"
      [] status = 500 -> "HTTP 500"
      [] status = 503 -> "HTTP 503"
      [] OTHER -> "HTTP other"

\* repr(exc) of the exception a failed session.get raised
ExcRepr(kind) ==
    CASE kind = "timeout" -> "ReadTimeout()"
      [] kind = "connerr" -> "ConnectionError()"
      [] OTHER -> "RequestException()"

\* line 198: the statuses that raise HTTPError and are tried again
IsRetryStatus(status) == status = 429 \/ status >= 500

RqStart(lim, clock) ==
    [pc |-> "loop", attempt |-> 0, last_error |-> PyNone, resp |-> NoResponse,
     has_payload |-> FALSE, payload |-> NoPayload, error |-> PyNone,
     mono |-> clock, lim |-> lim, sleep_for |-> NoDelay, gets |-> 0, sleeps |-> 0,
     fetched |-> NoFetch]

RqParked == [RqStart(NewRateLimiter(0), 0) EXCEPT !.pc = "parked"]

\* return payload, error
RqReturn(r, has_payload, payload, error) ==
    [r EXCEPT !.pc = "returned", !.has_payload = has_payload,
              !.payload = payload, !.error = error]

\* limiter.wait() by the only caller of the limiter, lines 41-47, as one step
LimiterWait(lim, clock) ==
    IF lim.interval <= 0 THEN [lim |-> lim, clock |-> clock]
    ELSE LET woke == IF LimiterMustSleep(lim.next_allowed, clock)
                     THEN clock + LimiterSleepFor(lim.next_allowed, clock)
                     ELSE clock
         IN  [lim |-> [lim EXCEPT !.next_allowed =
                          LimiterNextAllowed(clock, woke, lim.interval)],
              clock |-> woke]

\* lines 185-186 and 217: the head of `for attempt in range(MAX_RETRIES)`
\* with limiter.wait(), or the return after the loop
RqLoopStep(r) ==
    IF r.attempt < MAX_RETRIES
    THEN LET w == LimiterWait(r.lim, r.mono)
         IN  [r EXCEPT !.pc = "get", !.mono = w.clock, !.lim = w.lim]
    ELSE RqReturn(r, FALSE, NoPayload, r.last_error)

\* the _sleep_backoff call of lines 212 and 216 begins
RqBackoff(r, retry_after, jitter) ==
    [r EXCEPT !.pc = "sleep", !.sleep_for = SleepBackoff(r.attempt, retry_after, jitter)]

\* A mutant of RqOnStatus: a 429 or 5xx response sleeps the computed backoff,
\* whatever the Retry-After header says.
RqOnStatusIgnoringHeader(r, resp, jitter) ==
    LET r1 == [r EXCEPT !.last_error = HttpErrorText(resp.status)]
    IN  IF IsRetryStatus(resp.status)
        THEN RqBackoff(r1, NoDelay, jitter)
        ELSE RqReturn(r1, FALSE, NoPayload, r1.last_error)

\* lines 196-200 and 210-213: a status other than 200
RqOnStatus(r, resp, jitter) ==
    LET r1 == [r EXCEPT !.last_error = HttpErrorText(resp.status)]
    IN  IF IsRetryStatus(resp.status)
        THEN RqBackoff(r1, ParseRetryAfter(resp.retry_after), jitter)
        ELSE RqReturn(r1, FALSE, NoPayload, r1.last_error)

\* A mutant of RqOnBody: the error of an earlier attempt is returned beside
\* the payload.
RqOnBodyKeepingError(r, resp) ==
    IF resp.body.t = "notjson"
    THEN RqReturn(r, FALSE, NoPayload, "JSON decode error")
    ELSE IF resp.body.t = "object"
    THEN RqReturn(r, TRUE, resp.body.payload, r.last_error)
    ELSE RqReturn(r, FALSE, NoPayload, "JSON missing object")

\* lines 201-207: the body of a 200 response
RqOnBody(r, resp) ==
    IF resp.body.t = "notjson"
    THEN RqReturn(r, FALSE, NoPayload, "JSON decode error")
    ELSE IF resp.body.t = "object"
    THEN RqReturn(r, TRUE, resp.body.payload, PyNone)
    ELSE RqReturn(r, FALSE, NoPayload, "JSON missing object")

\* lines 187-216: session.get answers with resp; jitter is the random part
\* of a computed backoff
RqGetStep(r, resp, jitter) ==
    LET r1 == [r EXCEPT !.resp = resp, !.gets = r.gets + 1]
    IN  IF resp.kind = "http"
        THEN IF resp.status # 200
             THEN RqOnStatus(r1, resp, jitter)
             ELSE RqOnBody(r1, resp)
        ELSE RqBackoff([r1 EXCEPT !.last_error = ExcRepr(resp.kind)], NoDelay, jitter)

\* time.sleep(delay) of _sleep_backoff: OverflowError for a delay beyond the
\* platform's time_t, which nothing in _request_payload catches; otherwise
\* the sleep passes and the loop goes on to its next iteration.
RqSleepStep(r) ==
    IF r.sleep_for.t = "inf"
    THEN [r EXCEPT !.pc = "raised"]
    ELSE [r EXCEPT !.pc = "loop", !.mono = r.mono + r.sleep_for.v,
                   !.sleeps = r.sleeps + 1, !.attempt = r.attempt + 1]

\* `error or "Request failed"`
OrRequestFailed(error) == IF error \in {PyNone, ""} THEN "Request failed" ELSE error

\* fetch_card_price_by_id, lines 262-282, on what _request_payload returned
FetchCardPriceById(has_payload, payload, error) ==
    IF ~has_payload \/ payload.empty                       \* if not payload
    THEN FetchFailed(OrRequestFailed(error))
    ELSE IF payload.data.t # "list" \/ payload.data.items = <<>>
    THEN FetchFailed("JSON missing data")
    ELSE LET card == payload.data.items[1] IN
    IF card.t # "dict" THEN FetchFailed("JSON missing card")
    ELSE IF card.name.t # "str" THEN FetchFailed("JSON missing name")
    ELSE IF card.card_prices.t # "list" \/ card.card_prices.items = <<>>
    THEN FetchFailed("JSON missing card_prices")
    ELSE LET pe == card.card_prices.items[1] IN
    IF pe.t # "dict" \/ pe.empty THEN FetchFailed("JSON missing price entry")
    ELSE LET price_value == ParseCardmarketPrice(PeGet(pe)) IN
    IF ~price_value.ok THEN FetchFailed("JSON invalid cardmarket_price")
    ELSE FetchOk(card.name.v, price_value.cents)

\* fetch_card_price_by_id returns to its caller
RqFetchStep(r) ==
    [r EXCEPT !.pc = "fetched",
              !.fetched = FetchCardPriceById(r.has_payload, r.payload, r.error)]

\* ---- SpecRequest: one fetch_card_price_by_id call, step by step ----
RqLoop ==
    /\ rq.pc = "loop"
    /\ rq' = RqLoopStep(rq)
    /\ UNCHANGED <<limiterVars, cycleVars, extraVars>>

RqGet ==
    /\ rq.pc = "get"
    /\ \E resp \in Responses, jitter \in Jitters : rq' = RqGetStep(rq, resp, jitter)
    /\ UNCHANGED <<limiterVars, cycleVars, extraVars>>

RqSleep ==
    /\ rq.pc = "sleep"
    /\ rq' = RqSleepStep(rq)
    /\ UNCHANGED <<limiterVars, cycleVars, extraVars>>

RqFetch ==
    /\ rq.pc = "returned"
    /\ rq' = RqFetchStep(rq)
    /\ UNCHANGED <<limiterVars, cycleVars, extraVars>>

(***************************************************************************)
(* Values of the variables a specification does not use.                   *)
(***************************************************************************)
LimiterParked ==
    /\ mono = 0
    /\ limiter = NewRateLimiter(0)
    /\ thr = <<>>
    /\ lastReturn = NoTime
    /\ minGap = NoGap
    /\ everSlept = FALSE

CycleParked ==
    /\ cache = <<>>
    /\ today = 0
    /\ cy = [pc |-> "parked"]

PureParked == pf = [fn |-> "parked"]

SaveParked == disk = [pc |-> "parked"]

ResolveParked == rs = [pc |-> "parked"]

AppParked == app = [pc |-> "parked"]

ExtraParked == PureParked /\ SaveParked /\ ResolveParked /\ AppParked

(***************************************************************************)
(* SpecLimiter: one RateLimiter and the threads that call wait() on it.    *)
(***************************************************************************)
LimiterInit ==
    /\ mono \in {0, 1}
    /\ limiter \in {NewRateLimiter(m) : m \in MaxPerSecondChoices}
    /\ thr \in {[c \in 1..n |-> ThreadIdle] : n \in CallerCounts}
    /\ lastReturn = NoTime
    /\ minGap = NoGap
    /\ everSlept = FALSE
    /\ rq = RqParked
    /\ CycleParked
    /\ ExtraParked

LimiterNext ==
    \/ MonoTick
    \/ \E c \in DOMAIN thr : WaitCall(c)
    \/ \E c \in DOMAIN thr : WaitCheck(c)
    \/ \E c \in DOMAIN thr : WaitSleep(c)
    \/ \E c \in DOMAIN thr : WaitWake(c)
    \/ \E c \in DOMAIN thr : WaitUpdate(c)

SpecLimiter == LimiterInit /\ [][LimiterNext]_vars

(***************************************************************************)
(* SpecRequest: one fetch_card_price_by_id call, with its _request_payload *)
(* call, on a limiter that is new, is disabled, or has just let a request  *)
(* through.                                                                *)
(***************************************************************************)
RequestLimiters ==
    {NewRateLimiter(0), NewRateLimiter(2), [NewRateLimiter(2) EXCEPT !.next_allowed = 4]}

RequestInit ==
    /\ rq \in {RqStart(lim, 1) : lim \in RequestLimiters}
    /\ LimiterParked
    /\ CycleParked
    /\ ExtraParked

RequestNext == RqLoop \/ RqGet \/ RqSleep \/ RqFetch

SpecRequest == RequestInit /\ [][RequestNext]_vars

(***************************************************************************)
(* Claims about _request_payload and fetch_card_price_by_id (SpecRequest). *)
(***************************************************************************)
\* The last response is a transient failure: a timeout, a connection
\* failure, or HTTP 429 or 5xx.
LastTransient ==
    \/ rq.resp.kind \in {"timeout", "connerr"}
    \/ rq.resp.kind = "http" /\ rq.resp.status \in {429, 500, 503}

\* The last response is 200 with a JSON object.
LastIsObject ==
    rq.resp.kind = "http" /\ rq.resp.status = 200 /\ rq.resp.body.t = "object"

\* The last response ends the request in failure: a status other than 200,
\* 429 and 5xx, or a 200 whose body is not JSON or not a JSON object.
LastTerminalFailure ==
    /\ rq.resp.kind = "http"
    /\ \/ rq.resp.status \in {400, 404}
       \/ rq.resp.status = 200 /\ rq.resp.body.t \in {"notjson", "notobject"}

RequestOver == rq.pc \in {"returned", "fetched"}

\* C5: whatever the server answers, _request_payload makes at most 5 HTTP
\* attempts and then returns, it never raises; and when all 5 attempts have
\* failed transiently it returns no payload and a non-empty error text.
C5_AtMostFiveAttemptsThenReturns ==
    /\ rq.gets <= 5
    /\ rq.pc # "raised"
    /\ (rq.gets = 5 /\ LastTransient /\ rq.pc \notin {"get", "sleep", "loop"}
          => /\ RequestOver
             /\ ~rq.has_payload
             /\ rq.error \notin {PyNone, ""})

\* C5 refuted: the first attempt was answered 503 with a Retry-After beyond
\* the platform's time_t, and time.sleep raised out of _request_payload.
C5_Witness ==
    /\ rq.pc = "raised"
    /\ rq.gets = 1
    /\ rq.resp.kind = "http"
    /\ rq.resp.status = 503
    /\ rq.resp.retry_after = HdrHuge

\* C6: for every k in 0..4, when k attempts have failed transiently and
\* attempt k+1 answers 200 with a JSON object, _request_payload returns that
\* object and no error, after exactly k+1 attempts.
C6_SuccessAfterTransientFailures ==
    LastIsObject =>
        /\ RequestOver
        /\ rq.has_payload
        /\ rq.payload = rq.resp.body.payload
        /\ rq.error = PyNone
        /\ rq.attempt \in 0..4
        /\ rq.gets = rq.attempt + 1
        /\ rq.sleeps = rq.attempt

\* C6 witness: four transient failures, then the fifth attempt succeeds.
C6_Witness ==
    /\ rq.pc = "returned"
    /\ LastIsObject
    /\ rq.attempt = 4
    /\ rq.gets = 5
    /\ rq.last_error # PyNone
    /\ rq.has_payload

\* The price field of a well-formed payload is missing (no key, or null)
\* or invalid (not a number, not the empty or not-available text).
PriceFieldMissingOrInvalid(pe) ==
    \/ ~pe.has
    \/ pe.raw.t \in {"none", "other"}
    \/ pe.raw.t = "str" /\ pe.raw.s = <<"a", "b", "c">>

\* data, name, card_prices or the price field of the payload is missing or
\* invalid.
PayloadLacksField(p) ==
    \/ p.data.t # "list"
    \/ p.data.items = <<>>
    \/ p.data.items # <<>> /\
         LET card == p.data.items[1] IN
         \/ card.t # "dict"
         \/ card.name.t # "str"
         \/ card.card_prices.t # "list"
         \/ card.card_prices.items = <<>>
         \/ card.card_prices.items # <<>> /\
              LET pe == card.card_prices.items[1] IN
              \/ pe.t # "dict"
              \/ pe.empty
              \/ PriceFieldMissingOrInvalid(pe)

\* C7: a status other than 200, 429 and 5xx, or a 200 whose body is not JSON
\* or not a JSON object, fails the request at once, with no further attempt
\* and no backoff sleep; and fetch_card_price_by_id fails, without a new
\* request, when data, name, card_prices or the price field is missing or
\* invalid.
C7_TerminalFailuresFailAtOnce ==
    /\ LastTerminalFailure =>
          /\ RequestOver
          /\ ~rq.has_payload
          /\ rq.error \notin {PyNone, ""}
          /\ rq.gets = rq.attempt + 1
          /\ rq.sleeps = rq.attempt
    /\ (rq.pc = "fetched" /\ LastIsObject /\ PayloadLacksField(rq.payload))
          => /\ rq.fetched.t = "failed"
             /\ rq.gets = rq.attempt + 1

\* C7 refuted: the payload's price entry has no usable cardmarket_price,
\* and fetch_card_price_by_id returned the card with price 0.0.
C7_Witness ==
    /\ rq.pc = "fetched"
    /\ LastIsObject
    /\ PayloadLacksField(rq.payload)
    /\ rq.fetched.t = "ok"

\* C8: after a 429 or 5xx response the sleep before the next attempt is the
\* Retry-After value (seconds, or an HTTP date as seconds from now) clamped
\* to at least 0 when the header is present and parseable, and nothing is
\* added to it; when the header is absent or unparseable the sleep is the
\* computed backoff of that attempt, 0.5 s * 2^attempt plus up to 0.2 s.
C8_RetryAfterReplacesBackoff ==
    (rq.pc = "sleep" /\ rq.resp.kind = "http" /\ rq.resp.status \in {429, 500, 503}) =>
        LET h == rq.resp.retry_after
            d == rq.sleep_for
            base == CASE rq.attempt = 0 -> 5 [] rq.attempt = 1 -> 10
                      [] rq.attempt = 2 -> 20 [] rq.attempt = 3 -> 40
                      [] OTHER -> 80
        IN  CASE h.t = "secs" ->
                   d.t = "some" /\ d.v = (IF h.v < 0 THEN 0 ELSE 10 * h.v)
              [] h.t = "date" ->
                   d.t = "some" /\ d.v = (IF h.v < 0 THEN 0 ELSE h.v)
              [] h.t = "huge" -> d.t = "inf"
              [] OTHER -> d.t = "some" /\ d.v \in base..(base + 2)

\* C8 witness: on the third attempt a 503 carries an HTTP date in the past,
\* and the sleep asked for is 0 instead of the computed 2 s.
C8_Witness ==
    /\ rq.pc = "sleep"
    /\ rq.attempt = 2
    /\ rq.resp.kind = "http"
    /\ rq.resp.status = 503
    /\ rq.resp.retry_after = HdrDate(0 - 7)
    /\ rq.sleep_for = Delay(0)

(***************************************************************************)
(* Claims about RateLimiter (SpecLimiter).                                 *)
(***************************************************************************)
\* Two consecutive returns of wait() were at least 1/max_per_second apart.
SpacingKept ==
    minGap # NoGap => minGap * limiter.max_per_second >= UnitsPerSecond

\* C9: with a single caller and max_per_second > 0, any two consecutive
\* returns of wait() are at least 1/max_per_second apart; with
\* max_per_second <= 0, wait() returns at once and never sleeps.
C9_SingleCallerSpacing ==
    /\ (limiter.max_per_second > 0 /\ Len(thr) = 1) => SpacingKept
    /\ limiter.max_per_second <= 0 =>
          /\ ~everSlept
          /\ \A c \in DOMAIN thr : thr[c].pc = "idle"

\* C9 witness: a single caller has slept in wait() and two of its returns
\* are exactly one interval apart.
C9_Witness ==
    /\ Len(thr) = 1
    /\ limiter.max_per_second = 5
    /\ everSlept
    /\ minGap = 2
    /\ thr[1].pc = "idle"

\* C10: with two or more threads calling wait() on one RateLimiter, no two
\* calls return less than the configured interval apart.
C10_ConcurrentSpacing ==
    (limiter.max_per_second > 0 /\ Len(thr) >= 2) => SpacingKept

\* C10 refuted: two threads share a limiter of 5 per second, and two
\* returns of wait() fell on the same instant.
C10_Witness ==
    /\ Len(thr) = 2
    /\ limiter.max_per_second = 5
    /\ minGap = 0

(***************************************************************************)
(* normalize_passcode.  A raw id is None, a string or an int; a normalized *)
(* id is the text of a decimal number, and NoId is the None of "no id".    *)
(***************************************************************************)
NoId == <<>>

RawIdNone == [t |-> "none", s |-> <<>>, v |-> 0]
RawIdStr(s) == [t |-> "str", s |-> s, v |-> 0]
RawIdInt(v) == [t |-> "int", s |-> <<>>, v |-> v]

RECURSIVE NatToDigits(_)
NatToDigits(n) ==
    IF n < 10 THEN <<Digits[n + 1]>>
    ELSE Append(NatToDigits(n \div 10), Digits[(n % 10) + 1])

\* str(value) of an int
IntToStr(v) == IF v < 0 THEN <<"-">> \o NatToDigits(0 - v) ELSE NatToDigits(v)

\* int(text) for text of the form [+-]digits (text is already stripped):
\* the value, or ok = FALSE for ValueError
ParseInt(text) ==
    LET signed == text # <<>> /\ text[1] \in {"+", "-"}
        body == IF signed THEN Tail(text) ELSE text
    IN  IF ~AllDigits(body) THEN [ok |-> FALSE, v |-> 0]
        ELSE [ok |-> TRUE,
              v |-> IF signed /\ text[1] = "-" THEN 0 - DigitsToNat(body)
                    ELSE DigitsToNat(body)]

\* A mutant of NormalizePasscode: the stripped text is returned as it is
\* instead of str(value).
NormalizePasscodeKeepingText(raw_id) ==
    IF raw_id.t = "none" THEN NoId
    ELSE LET text == IF raw_id.t = "str" THEN Strip(raw_id.s)
                     ELSE Strip(IntToStr(raw_id.v))
         IN  IF text = <<>> \/ text = <<"0">> THEN NoId
             ELSE LET value == ParseInt(text)
                  IN  IF ~value.ok THEN NoId
                      ELSE IF value.v = 0 THEN NoId
                      ELSE text

\* normalize_passcode, lines 50-65
NormalizePasscode(raw_id) ==
    IF raw_id.t = "none" THEN NoId
    ELSE LET text == IF raw_id.t = "str" THEN Strip(raw_id.s)
                     ELSE Strip(IntToStr(raw_id.v))
         IN  IF text = <<>> \/ text = <<"0">> THEN NoId
             ELSE LET value == ParseInt(text)
                  IN  IF ~value.ok THEN NoId
                      ELSE IF value.v = 0 THEN NoId
                      ELSE IntToStr(value.v)

(***************************************************************************)
(* sorted(set(valid_ids)): Python orders str by code point.                *)
(***************************************************************************)
CharOrd(c) == IF c = "-" THEN 0 ELSE DigitValue(c) + 1

RECURSIVE StrLess(_, _)
StrLess(a, b) ==
    IF b = <<>> THEN FALSE
    ELSE IF a = <<>> THEN TRUE
    ELSE IF CharOrd(Head(a)) # CharOrd(Head(b)) THEN CharOrd(Head(a)) < CharOrd(Head(b))
    ELSE StrLess(Tail(a), Tail(b))

RECURSIVE SortedSeq(_)
SortedSeq(S) ==
    IF S = {} THEN <<>>
    ELSE LET m == CHOOSE x \in S : \A y \in S \ {x} : StrLess(x, y)
         IN  <<m>> \o SortedSeq(S \ {m})

\* sorted(list): the elements of a list in order, duplicates kept
RECURSIVE SortedList(_)
SortedList(q) ==
    IF q = <<>> THEN <<>>
    ELSE LET i == CHOOSE i \in 1..Len(q) :
                     \A j \in 1..Len(q) : ~StrLess(q[j], q[i])
         IN  <<q[i]>> \o SortedList(SubSeq(q, 1, i - 1) \o SubSeq(q, i + 1, Len(q)))

Range(q) == {q[i] : i \in 1..Len(q)}

SelectSeqNot(q, x) == SelectSeq(q, LAMBDA y : y # x)

Count(q, x) == Cardinality({i \in 1..Len(q) : q[i] = x})

(***************************************************************************)
(* Price cache entries and staleness.  updated_at is the text of an        *)
(* ISO-8601 instant, known here to the day, or text that does not parse.   *)
(***************************************************************************)
PRICE_TTL_DAYS == 14

IsoStamp(day) == [t |-> "iso", day |-> day]
BadStamp == [t |-> "bad", day |-> 0]

\* line 353: now_iso, from datetime.now(timezone.utc)
NowIso(now) == IsoStamp(now)

\* _parse_iso8601, lines 154-166: the instant, or ok = FALSE for None
ParseIso8601(value) ==
    IF value.t = "iso" THEN [ok |-> TRUE, day |-> value.day] ELSE [ok |-> FALSE, day |-> 0]

NoEntry == [t |-> "none"]
Entry(name, price, updated_at, last_error) ==
    [t |-> "dict", name |-> name, cardmarket_price |-> price,
     updated_at |-> updated_at, last_error |-> last_error]

\* cache.get(card_id)
CacheGet(c, card_id) == IF card_id \in DOMAIN c THEN c[card_id] ELSE NoEntry

\* cache[card_id] = entry
CachePut(c, card_id, entry) ==
    [k \in DOMAIN c \cup {card_id} |-> IF k = card_id THEN entry ELSE c[k]]

\* A mutant of IsStale: an entry exactly ttl_days old already counts as stale.
IsStaleInclusive(entry, ttl_days, now) ==
    LET parsed == ParseIso8601(entry.updated_at)
    IN  IF ~parsed.ok THEN TRUE ELSE parsed.day + ttl_days <= now

\* A mutant of IsStale: an entry whose updated_at does not parse is fresh.
IsStaleTrustingBadStamp(entry, ttl_days, now) ==
    LET parsed == ParseIso8601(entry.updated_at)
    IN  IF ~parsed.ok THEN FALSE ELSE parsed.day + ttl_days < now

\* is_stale, lines 169-176, at the instant `now`
IsStale(entry, ttl_days, now) ==
    LET parsed == ParseIso8601(entry.updated_at)
    IN  IF ~parsed.ok THEN TRUE ELSE parsed.day + ttl_days < now

\* line 357, negated: the id is requested in this iteration
NeedsRefresh(entry, force_refresh, ttl_days, now) ==
    ~(entry.t = "dict" /\ ~force_refresh /\ ~IsStale(entry, ttl_days, now))

(***************************************************************************)
(* ensure_prices, lines 334-401.  The frame `cy` holds the locals of the   *)
(* call; before, log and failed are the cache as it was handed in, the ids *)
(* requested so far and the ids whose fetch has failed so far.             *)
(***************************************************************************)
MAX_REQUESTS_PER_SECOND == 2

\* The server's answers to the attempts of one request: the script is
\* followed attempt by attempt and its last answer is repeated.
ScriptAt(script, n) == script[IF n <= Len(script) THEN n ELSE Len(script)]

RECURSIVE RunRequest(_, _)
RunRequest(r, script) ==
    IF r.pc = "loop" THEN RunRequest(RqLoopStep(r), script)
    ELSE IF r.pc = "get"
    THEN RunRequest(RqGetStep(r, ScriptAt(script, r.gets + 1), 0), script)
    ELSE IF r.pc = "sleep" THEN RunRequest(RqSleepStep(r), script)
    ELSE r

\* fetch_card_price_by_id(session, card_id, limiter) against a server that
\* follows `script`
FetchOutcome(script) ==
    LET r == RunRequest(RqStart(NewRateLimiter(MAX_REQUESTS_PER_SECOND), 0), script)
    IN  IF r.pc = "raised" THEN FetchRaised
        ELSE FetchCardPriceById(r.has_payload, r.payload, r.error)

PricePayload(raw) == Payload(DataList(<<CardWithPrices(PricesList(<<PeWith(raw)>>))>>))
Ok200(payload) == Http(200, HdrAbsent, BodyObject(payload))

\* What the server does to the requests of a cycle: it times out for good,
\* answers after one timeout with a price, answers with a negative price, or
\* sends a 503 whose Retry-After is beyond what time.sleep accepts.
CycleScripts ==
    {<<NetError("timeout")>>,
     <<NetError("timeout"), Ok200(PricePayload(RawStr(<<"1", "2", ".", "3", "4">>)))>>,
     <<Ok200(PricePayload(RawStr(<<"-", "1", ".", "5", "0">>)))>>,
     <<Http(503, HdrHuge, BodyNone)>>}

CycleOutcomes == {FetchOutcome(script) : script \in CycleScripts}

NoSummary ==
    [t |-> "none", ids_total |-> 0, ids_valid |-> 0, ids_requested |-> 0,
     ids_ok |-> 0, ids_nonzero |-> 0, ids_failed |-> 0]

CyIdle ==
    [pc |-> "idle", raw_ids |-> <<>>, force_refresh |-> FALSE,
     ttl_days |-> PRICE_TTL_DAYS, valid_ids |-> <<>>, unique_ids |-> <<>>, i |-> 1,
     ids_total |-> 0, ids_valid |-> 0, ids_requested |-> 0, ids_ok |-> 0,
     ids_failed |-> 0, failed_diagnostics |-> 0, now_iso |-> BadStamp,
     before |-> <<>>, log |-> <<>>, failed |-> <<>>, summary |-> NoSummary]

\* A mutant of UniqueIds: the valid ids are sorted but not de-duplicated.
UniqueIdsWithDuplicates(valid_ids) == SortedList(valid_ids)

\* line 347: unique_ids = sorted(set(valid_ids))
UniqueIds(valid_ids) == SortedSeq(Range(valid_ids))

\* lines 343-353: the locals before the loop
CyStartStep(raw_ids, force_refresh, c, now) ==
    LET normalized_ids == [k \in 1..Len(raw_ids) |-> NormalizePasscode(raw_ids[k])]
        valid_ids == SelectSeqNot(normalized_ids, NoId)
    IN  [CyIdle EXCEPT !.pc = "loop", !.raw_ids = raw_ids,
                       !.force_refresh = force_refresh,
                       !.valid_ids = valid_ids,
                       !.unique_ids = UniqueIds(valid_ids),
                       !.ids_total = Len(normalized_ids),
                       !.ids_valid = Len(valid_ids),
                       !.now_iso = NowIso(now),
                       !.before = c]

\* line 363: should_record_error = failed_diagnostics < 5
ShouldRecordError(failed_diagnostics) == failed_diagnostics < 5

\* A mutant of CacheAfterFailure: a failed refresh re-dates the entry it keeps.
CacheAfterFailureRedated(c, card_id, entry, record, error, now_iso) ==
    IF entry.t = "dict"
    THEN CachePut(c, card_id,
                  [entry EXCEPT !.updated_at = now_iso,
                                !.last_error = IF record THEN OrRequestFailed(error)
                                               ELSE entry.last_error])
    ELSE CachePut(c, card_id,
                  Entry("", 0, now_iso, IF record THEN OrRequestFailed(error) ELSE PyNone))

\* A mutant of CacheAfterFailure: the placeholder of a failed first fetch is
\* dated so that it is stale at once.
CacheAfterFailureUndated(c, card_id, entry, record, error, now_iso) ==
    IF entry.t = "dict"
    THEN IF record
         THEN CachePut(c, card_id, [entry EXCEPT !.last_error = OrRequestFailed(error)])
         ELSE c
    ELSE CachePut(c, card_id,
                  Entry("", 0, BadStamp, IF record THEN OrRequestFailed(error) ELSE PyNone))

\* A mutant of CacheAfterFailure: a failed refresh discards the entry whose
\* refresh failed.
CacheAfterFailureDropping(c, card_id, entry, record, error, now_iso) ==
    IF entry.t = "dict"
    THEN [k \in DOMAIN c \ {card_id} |-> c[k]]
    ELSE CachePut(c, card_id,
                  Entry("", 0, now_iso, IF record THEN OrRequestFailed(error) ELSE PyNone))

\* lines 366-377: the cache after a failed fetch of card_id
CacheAfterFailure(c, card_id, entry, record, error, now_iso) ==
    IF entry.t = "dict"
    THEN IF record
         THEN CachePut(c, card_id, [entry EXCEPT !.last_error = OrRequestFailed(error)])
         ELSE c
    ELSE CachePut(c, card_id,
                  Entry("", 0, now_iso, IF record THEN OrRequestFailed(error) ELSE PyNone))

\* lines 380-385: the cache after a successful fetch of card_id
CacheAfterSuccess(c, card_id, name, price, now_iso) ==
    CachePut(c, card_id, Entry(name, price, now_iso, PyNone))

\* lines 355-385: one iteration of the loop over unique_ids, in which the
\* fetch, when there is one, ends as `outcome`
CyIterStep(f, c, now, outcome) ==
    LET card_id == f.unique_ids[f.i]
        entry == CacheGet(c, card_id)
    IN  IF ~NeedsRefresh(entry, f.force_refresh, f.ttl_days, now)
        THEN [cy |-> [f EXCEPT !.i = f.i + 1], cache |-> c]
        ELSE LET f1 == [f EXCEPT !.ids_requested = f.ids_requested + 1,
                                 !.log = Append(f.log, card_id)]
             IN  IF outcome.t = "raised"
                 THEN [cy |-> [f1 EXCEPT !.pc = "raised"], cache |-> c]
                 ELSE IF outcome.t = "failed"
                 THEN LET record == ShouldRecordError(f.failed_diagnostics)
                      IN  [cy |-> [f1 EXCEPT !.i = f.i + 1,
                                             !.ids_failed = f.ids_failed + 1,
                                             !.failed_diagnostics =
                                                 IF record THEN f.failed_diagnostics + 1
                                                 ELSE f.failed_diagnostics,
                                             !.failed = Append(f.failed, card_id)],
                           cache |-> CacheAfterFailure(c, card_id, entry, record,
                                                       outcome.error, f.now_iso)]
                 ELSE [cy |-> [f1 EXCEPT !.i = f.i + 1, !.ids_ok = f.ids_ok + 1],
                       cache |-> CacheAfterSuccess(c, card_id, outcome.name,
                                                   outcome.price, f.now_iso)]

\* A mutant of CyFinishStep: ids_nonzero counts the entries of valid_ids, an
\* id listed twice being counted twice.
CyFinishStepCountingList(f, c) ==
    LET nonzero == {k \in 1..Len(f.valid_ids) :
                       /\ CacheGet(c, f.valid_ids[k]).t = "dict"
                       /\ CacheGet(c, f.valid_ids[k]).cardmarket_price > 0}
    IN  [f EXCEPT !.pc = "done",
                  !.summary = [t |-> "summary", ids_total |-> f.ids_total,
                               ids_valid |-> f.ids_valid,
                               ids_requested |-> f.ids_requested,
                               ids_ok |-> f.ids_ok,
                               ids_nonzero |-> Cardinality(nonzero),
                               ids_failed |-> f.ids_failed]]

\* lines 386-401: the summary
CyFinishStep(f, c) ==
    LET nonzero == {card_id \in Range(f.valid_ids) :
                       /\ CacheGet(c, card_id).t = "dict"
                       /\ CacheGet(c, card_id).cardmarket_price > 0}
    IN  [f EXCEPT !.pc = "done",
                  !.summary = [t |-> "summary", ids_total |-> f.ids_total,
                               ids_valid |-> f.ids_valid,
                               ids_requested |-> f.ids_requested,
                               ids_ok |-> f.ids_ok,
                               ids_nonzero |-> Cardinality(nonzero),
                               ids_failed |-> f.ids_failed]]

(***************************************************************************)
(* Spec: one ensure_prices cycle on a cache that load_price_cache returned.*)
(***************************************************************************)
\* The day on which the run begins.
Day0 == PRICE_TTL_DAYS + 6

S87 == <<"8", "7">>
S9 == <<"9">>

\* Raw ids of deck entries: no id, "0", text that is no number, "87",
\* " 087 ", "-5" and the int 9.
CycleRawIds ==
    {RawIdNone, RawIdStr(<<"0">>), RawIdStr(<<"a", "b", "c">>), RawIdStr(S87),
     RawIdStr(<<" ", "0", "8", "7", " ">>), RawIdStr(<<"-", "5">>), RawIdInt(9)}

\* The ids of a deck of six different cards, one of them listed twice in
\* two spellings, and of one entry without id.
DeckList ==
    <<RawIdStr(S87), RawIdStr(<<"1", "0">>), RawIdNone, RawIdInt(9),
      RawIdStr(<<" ", "0", "8", "7", " ">>), RawIdStr(<<"5">>),
      RawIdStr(<<"1", "2">>), RawIdStr(<<"-", "5">>)>>

SeqsUpTo(S, n) == UNION {[1..k -> S] : k \in 0..n}

RawLists == SeqsUpTo(CycleRawIds, MaxRaw) \cup {DeckList}

\* Entries a loaded cache holds for "87": one refreshed exactly ttl days
\* ago, one refreshed a day earlier than that.
Entries87 ==
    {Entry("Dark Magician", 1234, IsoStamp(Day0 - PRICE_TTL_DAYS), PyNone),
     Entry("Dark Magician", 1234, IsoStamp(Day0 - PRICE_TTL_DAYS - 1), "HTTP 503")}

\* Entries a loaded cache holds for "9": one refreshed today, and one whose
\* updated_at does not parse.
Entries9 ==
    {Entry("Kuriboh", 0, IsoStamp(Day0), PyNone),
     Entry("Kuriboh", 50, BadStamp, PyNone)}

InitCaches ==
    {<<>>}
        \cup {(S87 :> e) : e \in Entries87}
        \cup {(S9 :> e) : e \in Entries9}
        \cup {(S87 :> e) @@ (S9 :> g) : e \in Entries87, g \in Entries9}

Init ==
    /\ cache \in InitCaches
    /\ today = Day0
    /\ cy = CyIdle
    /\ rq = RqParked
    /\ LimiterParked
    /\ ExtraParked

\* ensure_prices is called with a list of raw ids
CyStart ==
    /\ cy.pc = "idle"
    /\ \E raw_ids \in RawLists, force_refresh \in BOOLEAN :
          cy' = CyStartStep(raw_ids, force_refresh, cache, today)
    /\ UNCHANGED <<cache, today, rq, limiterVars, extraVars>>

\* one iteration of `for card_id in unique_ids`
CyIterate ==
    /\ cy.pc = "loop"
    /\ cy.i <= Len(cy.unique_ids)
    /\ \E outcome \in CycleOutcomes :
          LET next == CyIterStep(cy, cache, today, outcome)
          IN  /\ cy' = next.cy
              /\ cache' = next.cache
    /\ UNCHANGED <<today, rq, limiterVars, extraVars>>

\* the loop is over: the summary is built and returned
CyFinish ==
    /\ cy.pc = "loop"
    /\ cy.i > Len(cy.unique_ids)
    /\ cy' = CyFinishStep(cy, cache)
    /\ UNCHANGED <<cache, today, rq, limiterVars, extraVars>>

\* a day passes
DayTick ==
    /\ today < Day0 + MaxDayTicks
    /\ cy.pc \in {"idle", "loop"}
    /\ today' = today + 1
    /\ UNCHANGED <<cache, cy, rq, limiterVars, extraVars>>

Next == CyStart \/ CyIterate \/ CyFinish \/ DayTick

Spec == Init /\ [][Next]_vars

(***************************************************************************)
(* Claims about ensure_prices (Spec).                                      *)
(***************************************************************************)
FailedWithEntry == {id \in Range(cy.failed) : id \in DOMAIN cy.before}
FailedWithoutEntry == {id \in Range(cy.failed) : id \notin DOMAIN cy.before}

\* The place of an id among the ids that failed in this cycle.
FailureRank(id) == CHOOSE i \in 1..Len(cy.failed) : cy.failed[i] = id

\* C1: an id whose fetch fails while the cache holds an entry for it keeps
\* that entry, with the name, cardmarket_price and updated_at it had before
\* the cycle; only last_error may differ.
C1_FailedRefreshKeepsEntry ==
    \A id \in FailedWithEntry :
        /\ id \in DOMAIN cache
        /\ cache[id].name = cy.before[id].name
        /\ cache[id].cardmarket_price = cy.before[id].cardmarket_price
        /\ cache[id].updated_at = cy.before[id].updated_at

\* C1 witness: the cycle is over, the refresh of a stale entry with a price
\* has failed, and the entry differs from before in its last_error.
C1_Witness ==
    /\ cy.pc = "done"
    /\ \E id \in FailedWithEntry :
          /\ cy.before[id].cardmarket_price = 1234
          /\ cy.before[id].last_error = "HTTP 503"
          /\ cache[id].last_error = "ReadTimeout()"

\* The placeholder of a failed first fetch: price 0.0, dated the cycle's
\* now, and such that a non-forced cycle within the TTL does not request it.
PlaceholderFor(id) ==
    /\ id \in DOMAIN cache
    /\ cache[id].t = "dict"
    /\ cache[id].cardmarket_price = 0
    /\ cache[id].updated_at = cy.now_iso
    /\ cy.now_iso.t = "iso"
    /\ cy.now_iso.day <= today
    /\ \A t \in cy.now_iso.day..(cy.now_iso.day + PRICE_TTL_DAYS) :
          ~NeedsRefresh(cache[id], FALSE, PRICE_TTL_DAYS, t)

\* C2, as claimed: every id whose fetch fails and that had no entry gets a
\* placeholder with price 0.0, dated the cycle's now, with the failure in a
\* non-empty last_error, however many ids failed; a following non-forced
\* cycle within the TTL does not request it.
C2_EveryPlaceholderRecordsFailure ==
    \A id \in FailedWithoutEntry :
        /\ PlaceholderFor(id)
        /\ cache[id].last_error \notin {PyNone, ""}

\* C2, amended: the placeholder carries the failure in a non-empty
\* last_error when the id is among the first 5 ids that failed in the
\* cycle, and carries no last_error when it failed after those.
C2_PlaceholderRecordsFirstFiveFailures ==
    \A id \in FailedWithoutEntry :
        /\ PlaceholderFor(id)
        /\ FailureRank(id) <= 5 => cache[id].last_error \notin {PyNone, ""}
        /\ FailureRank(id) > 5 => cache[id].last_error = PyNone

\* C2 witness: six ids have failed in one cycle, the sixth had no entry and
\* its placeholder has no last_error, while the first one's has.
C2_Witness ==
    /\ cy.pc = "done"
    /\ Len(cy.failed) = 6
    /\ cy.failed[6] \in FailedWithoutEntry
    /\ cache[cy.failed[6]].last_error = PyNone
    /\ cy.failed[1] \in FailedWithoutEntry
    /\ cache[cy.failed[1]].last_error = "ReadTimeout()"

\* An entry that is not stale on the given day.
FreshOn(entry, day) ==
    /\ entry.updated_at.t = "iso"
    /\ entry.updated_at.day + PRICE_TTL_DAYS >= day

\* C3: with force_refresh false, an id whose cache entry is fresh is not
\* requested and its entry is left as it was.
C3_FreshEntriesUntouched ==
    ~cy.force_refresh =>
        \A id \in DOMAIN cy.before :
            FreshOn(cy.before[id], today) =>
                /\ id \notin Range(cy.log)
                /\ id \in DOMAIN cache
                /\ cache[id] = cy.before[id]

\* C3 witness: a non-forced cycle is over in which a listed id with a fresh
\* entry was passed over while another id was requested.
C3_Witness ==
    /\ cy.pc = "done"
    /\ ~cy.force_refresh
    /\ cy.ids_requested >= 1
    /\ \E id \in Range(cy.unique_ids) :
          /\ id \in DOMAIN cy.before
          /\ FreshOn(cy.before[id], today)
          /\ id \notin Range(cy.log)

\* The normalized ids of the input list.
ListedIds == {NormalizePasscode(cy.raw_ids[k]) : k \in 1..Len(cy.raw_ids)} \ {NoId}

\* The id had to be refreshed when the cycle began.
DueAtStart(id) ==
    \/ id \notin DOMAIN cy.before
    \/ cy.force_refresh
    \/ ~FreshOn(cy.before[id], cy.now_iso.day)

\* C4: in a cycle, every distinct normalized id that has no entry, has a
\* stale entry or is requested with force_refresh is fetched exactly once,
\* however often and in whatever spellings the list names it: at no point
\* of the cycle has an id been fetched twice or an id outside the list been
\* fetched, and when the cycle returns every due id has been fetched once.
C4_EachDueIdFetchedOnce ==
    /\ \A id \in Range(cy.log) : id \in ListedIds /\ Count(cy.log, id) = 1
    /\ cy.ids_requested = Len(cy.log)
    /\ cy.pc = "done" =>
          \A id \in ListedIds : DueAtStart(id) => Count(cy.log, id) = 1

\* C4 witness: a forced cycle is over whose list named "87" as "87" and as
\* " 087 ", and "87" was requested.
C4_Witness ==
    /\ cy.pc = "done"
    /\ cy.force_refresh
    /\ RawIdStr(S87) \in Range(cy.raw_ids)
    /\ RawIdStr(<<" ", "0", "8", "7", " ">>) \in Range(cy.raw_ids)
    /\ S87 \in Range(cy.log)
    /\ S87 \in DOMAIN cy.before

\* The text of a positive integer: digits only, the first of them not "0".
IsPositiveIdText(id) ==
    /\ id # <<>>
    /\ \A i \in 1..Len(id) : id[i] \in {"0", "1", "2", "3", "4", "5", "6", "7", "8", "9"}
    /\ id[1] # "0"

\* C14: every id that normalize_passcode yields in a cycle, every id sent
\* to the external API and every key that ensure_prices adds to the cache
\* is the text of a positive integer, never of a negative number.
C14_IdsArePositive ==
    /\ \A id \in Range(cy.unique_ids) : IsPositiveIdText(id)
    /\ \A id \in Range(cy.log) : IsPositiveIdText(id)
    /\ \A id \in DOMAIN cache : id \notin DOMAIN cy.before => IsPositiveIdText(id)

\* C14 refuted: the cycle was given the raw id "-5", has requested the id
\* "-5" from the API and has added the key "-5" to the cache.
C14_Witness ==
    /\ cy.pc = "done"
    /\ RawIdStr(<<"-", "5">>) \in Range(cy.raw_ids)
    /\ <<"-", "5">> \in Range(cy.log)
    /\ <<"-", "5">> \in DOMAIN cache
    /\ <<"-", "5">> \notin DOMAIN cy.before

\* C15: a price field that is neither empty nor "N/A" and is not a
\* non-negative decimal fails the fetch, so every entry that ensure_prices
\* writes has cardmarket_price >= 0 and a negative price is never cached.
C15_CachedPricesNonNegative ==
    \A id \in DOMAIN cache :
        id \in Range(cy.log) => cache[id].cardmarket_price >= 0

\* C15 refuted: the API answered a fetch with the price "-1.50", the fetch
\* counted as ok and the entry was cached with the price -1.50.
C15_Witness ==
    /\ cy.pc = "done"
    /\ cy.ids_ok >= 1
    /\ \E id \in Range(cy.log) :
          /\ cache[id].cardmarket_price = 0 - 150
          /\ cache[id].name = GoodName.v
          /\ cache[id].updated_at = cy.now_iso

(***************************************************************************)
(* SpecCycles: ensure_prices is called again and again on one cache dict,  *)
(* as by report runs that load the cache an earlier run has saved.         *)
(***************************************************************************)
CyclesRawLists == SeqsUpTo({RawIdStr(S87), RawIdInt(9), RawIdNone}, MaxRaw)

CyclesInit ==
    /\ cache \in {<<>>} \cup {(S87 :> e) : e \in Entries87}
    /\ today = Day0
    /\ cy = CyIdle
    /\ rq = RqParked
    /\ LimiterParked
    /\ ExtraParked

\* ensure_prices is called with the ids of a short list
CyStartShort ==
    /\ cy.pc = "idle"
    /\ \E raw_ids \in CyclesRawLists, force_refresh \in BOOLEAN :
          cy' = CyStartStep(raw_ids, force_refresh, cache, today)
    /\ UNCHANGED <<cache, today, rq, limiterVars, extraVars>>

\* ensure_prices has returned; its caller keeps the cache for the next call
CyReturn ==
    /\ cy.pc = "done"
    /\ cy' = CyIdle
    /\ UNCHANGED <<cache, today, rq, limiterVars, extraVars>>

CyclesNext == CyStartShort \/ CyIterate \/ CyFinish \/ CyReturn \/ DayTick

SpecCycles == CyclesInit /\ [][CyclesNext]_vars

\* C19: across any sequence of ensure_prices cycles the set of keys of the
\* price cache never shrinks: no step of a cycle removes a key.
C19_KeysNeverShrink ==
    [][DOMAIN cache \subseteq DOMAIN cache']_vars

\* C19 witness: a forced cycle is over that has overwritten, with a fetched
\* price, the placeholder an earlier cycle left for "9" after a failure,
\* and the entry for "87" is still there.
C19_Witness ==
    /\ cy.pc = "done"
    /\ cy.force_refresh
    /\ S9 \in DOMAIN cy.before
    /\ cy.before[S9].name = ""
    /\ cy.before[S9].last_error = "ReadTimeout()"
    /\ cache[S9].name = GoodName.v
    /\ cache[S9].last_error = PyNone
    /\ S87 \in DOMAIN cache

(***************************************************************************)
(* SpecPure: the pure functions of the module, each called on every input  *)
(* of a bounded set.  pf holds the latest call: the function, its          *)
(* arguments and what it returned.                                         *)
(***************************************************************************)
PasscodeChars == {" ", "0", "7", "8", "-", "a"}

\* raw_id arguments: None, ints, every short text, and the text "  087 "
PasscodeInputs ==
    {RawIdNone}
        \cup {RawIdInt(v) : v \in {0 - 5, 0, 9, 87}}
        \cup {RawIdStr(s) : s \in SeqsUpTo(PasscodeChars, MaxText)}
        \cup {RawIdStr(<<" ", " ", "0", "8", "7", " ">>)}

PriceChars == {" ", "0", "1", ".", "-", "a"}

\* raw arguments: None, JSON numbers, a JSON value of another type, every
\* short text, and the texts "12.34", "N/A" and "n/a"
PriceInputs ==
    {RawNone, RawOther}
        \cup {RawNum(c) : c \in {0 - 150, 0, 1234}}
        \cup {RawStr(s) : s \in SeqsUpTo(PriceChars, MaxText)}
        \cup {RawStr(<<"1", "2", ".", "3", "4">>), RawStr(<<"N", "/", "A">>),
              RawStr(<<"n", "/", "a">>)}

\* updated_at that is missing or not a str (is_stale line 171)
NoStamp == [t |-> "absent", day |-> 0]

TtlChoices == {0, 1, PRICE_TTL_DAYS}

\* entry arguments of is_stale: updated_at up to ttl_days + 2 days back and
\* one day ahead of the first instant, unparseable, or missing
StaleInputs ==
    {Entry("", 0, u, PyNone) :
        u \in {IsoStamp(d) : d \in (Day0 - PRICE_TTL_DAYS - 2)..(Day0 + 1)}
                \cup {BadStamp, NoStamp}}

PureInit ==
    /\ pf = [fn |-> "none"]
    /\ rq = RqParked
    /\ LimiterParked
    /\ CycleParked
    /\ SaveParked
    /\ ResolveParked
    /\ AppParked

CallNormalizePasscode ==
    /\ \E raw_id \in PasscodeInputs :
          pf' = [fn |-> "normalize_passcode", raw_id |-> raw_id,
                 out |-> NormalizePasscode(raw_id)]
    /\ UNCHANGED <<limiterVars, rq, cycleVars, disk, rs, app>>

CallParseCardmarketPrice ==
    /\ \E raw \in PriceInputs :
          pf' = [fn |-> "parse_cardmarket_price", raw |-> raw,
                 out |-> ParseCardmarketPrice(raw)]
    /\ UNCHANGED <<limiterVars, rq, cycleVars, disk, rs, app>>

CallIsStale ==
    /\ \E entry \in StaleInputs, ttl_days \in TtlChoices, now \in Day0..(Day0 + 1) :
          pf' = [fn |-> "is_stale", entry |-> entry, ttl_days |-> ttl_days,
                 now |-> now, out |-> IsStale(entry, ttl_days, now)]
    /\ UNCHANGED <<limiterVars, rq, cycleVars, disk, rs, app>>

PureNext == CallNormalizePasscode \/ CallParseCardmarketPrice \/ CallIsStale

SpecPure == PureInit /\ [][PureNext]_vars

(***************************************************************************)
(* Claims about the pure functions (SpecPure).                             *)
(***************************************************************************)
Rep(c, n) == [i \in 1..n |-> c]

\* The sign and the magnitude of the text of a decimal integer.
SignOf(c) == IF c # <<>> /\ c[1] = "-" THEN <<"-">> ELSE <<>>
MagnitudeOf(c) == IF c # <<>> /\ c[1] = "-" THEN Tail(c) ELSE c

\* c is the canonical decimal text of a non-zero integer: an optional "-",
\* then digits of which the first is not "0".
IsCanonicalId(c) ==
    LET m == MagnitudeOf(c)
    IN  /\ m # <<>>
        /\ \A i \in 1..Len(m) : m[i] \in {"0", "1", "2", "3", "4", "5", "6", "7", "8", "9"}
        /\ m[1] # "0"

\* text spells the integer whose canonical text is c: blanks, the sign of
\* c, any leading zeros, the digits of c, blanks.
Spells(text, c) ==
    \E a, z, b \in 0..Len(text) :
        text = Rep(" ", a) \o SignOf(c) \o Rep("0", z) \o MagnitudeOf(c) \o Rep(" ", b)

\* The canonical texts that text could spell.
SpelledBy(text) ==
    {c \in {SubSeq(text, i, j) : i, j \in 1..Len(text)}
            \cup {<<"-">> \o SubSeq(text, i, j) : i, j \in 1..Len(text)} :
        IsCanonicalId(c) /\ Spells(text, c)}

\* C13: normalize_passcode returns None for None, for an empty or blank
\* text, for "0" and every other zero, and for every non-numeric input; for
\* a numeric input with surrounding blanks or leading zeros it returns the
\* canonical decimal text ("  087 " gives "87").  No input makes it raise.
C13_NormalizePasscode ==
    pf.fn = "normalize_passcode" =>
        LET raw_id == pf.raw_id
            out == pf.out
        IN  /\ raw_id.t = "none" => out = NoId
            /\ raw_id.t = "int" =>
                  out = (CASE raw_id.v = 0 -> NoId
                           [] raw_id.v = 9 -> <<"9">>
                           [] raw_id.v = 87 -> <<"8", "7">>
                           [] raw_id.v = 0 - 5 -> <<"-", "5">>)
            /\ raw_id.t = "str" =>
                  /\ out # NoId => IsCanonicalId(out) /\ Spells(raw_id.s, out)
                  /\ out = NoId => SpelledBy(raw_id.s) = {}

\* C13 witness: normalize_passcode("  087 ") has returned "87".
C13_Witness ==
    /\ pf.fn = "normalize_passcode"
    /\ pf.raw_id = RawIdStr(<<" ", " ", "0", "8", "7", " ">>)
    /\ pf.out = <<"8", "7">>

\* Text that float() rejects: no digit in it, or a character that no
\* number has, or blanks or a sign inside it.
NotANumber(text) ==
    \/ \A i \in 1..Len(text) : text[i] \notin {"0", "1", "2", "3", "4"}
    \/ \E i \in 1..Len(text) : text[i] \in {"a", "n", "N", "/", "A"}

\* C16: parse_cardmarket_price returns None, not 0.0, for None and for any
\* text that is not a number (the empty text and "N/A", which stand for a
\* price of 0.0, aside).
C16_NoPriceForNoneAndNonNumbers ==
    pf.fn = "parse_cardmarket_price" =>
        /\ pf.raw.t = "none" => pf.out = NoPrice
        /\ (pf.raw.t = "str" /\ NotANumber(pf.raw.s)
               /\ pf.raw.s \notin {<<>>, <<"N", "/", "A">>}) => pf.out = NoPrice

\* C16 refuted: parse_cardmarket_price(None) has returned 0.0.
C16_Witness ==
    /\ pf.fn = "parse_cardmarket_price"
    /\ pf.raw = RawNone
    /\ pf.out = SomePrice(0)

\* Texts that denote a number, with the number in cents.
NumberTexts ==
    {<<<<"1", "2", ".", "3", "4">>, 1234>>, <<<<"0">>, 0>>, <<<<"1">>, 100>>,
     <<<<"1", "0">>, 1000>>, <<<<"0", "1">>, 100>>, <<<<"1", ".", "1">>, 110>>,
     <<<<"0", ".", "1">>, 10>>, <<<<".", "1">>, 10>>, <<<<"1", ".">>, 100>>,
     <<<<".", "0", "1">>, 1>>, <<<<"-", "1">>, 0 - 100>>, <<<<"-", ".", "1">>, 0 - 10>>,
     <<<<" ", "1", " ">>, 100>>, <<<<"1", "1", "1">>, 11100>>, <<<<"-", "1", "0">>, 0 - 1000>>}

\* C17: parse_cardmarket_price returns 0.0 for the empty text and for
\* "N/A", and for a text that denotes a number it returns that number
\* ("12.34" gives 12.34, "0" gives 0.0).
C17_PriceOfSentinelsAndNumbers ==
    pf.fn = "parse_cardmarket_price" =>
        /\ pf.raw \in {RawStr(<<>>), RawStr(<<"N", "/", "A">>)} => pf.out = SomePrice(0)
        /\ \A p \in NumberTexts : pf.raw = RawStr(p[1]) => pf.out = SomePrice(p[2])
        /\ pf.raw.t = "num" => pf.out = SomePrice(pf.raw.v)

\* C17 witness: parse_cardmarket_price("12.34") has returned 12.34.
C17_Witness ==
    /\ pf.fn = "parse_cardmarket_price"
    /\ pf.raw = RawStr(<<"1", "2", ".", "3", "4">>)
    /\ pf.out = SomePrice(1234)

\* C18: is_stale is true exactly when the entry has no parseable updated_at
\* or updated_at + ttl_days days lies strictly before now; an entry updated
\* ttl_days + 1 days ago is stale, one updated ttl_days - 1 days ago fresh.
C18_StaleExactlyPastTtl ==
    pf.fn = "is_stale" =>
        LET u == pf.entry.updated_at
        IN  /\ pf.out <=> (u.t # "iso" \/ u.day + pf.ttl_days < pf.now)
            /\ (u.t = "iso" /\ u.day = pf.now - (pf.ttl_days + 1)) => pf.out
            /\ (u.t = "iso" /\ u.day = pf.now - (pf.ttl_days - 1)) => ~pf.out

\* C18 witness: an entry updated exactly ttl_days days ago was found fresh.
C18_Witness ==
    /\ pf.fn = "is_stale"
    /\ pf.ttl_days = PRICE_TTL_DAYS
    /\ pf.entry.updated_at = IsoStamp(pf.now - PRICE_TTL_DAYS)
    /\ ~pf.out

(***************************************************************************)
(* SpecSave: save_price_cache_atomic / save_name_cache_atomic (the same    *)
(* statements) and load_price_cache.  A file has the text the operating    *)
(* system holds for it and the length of it that is known to be on the     *)
(* medium; JSON text is a sequence of chunks, one for each brace and one   *)
(* for each key with its value.  The process may die and the power may     *)
(* fail between any two statements.                                        *)
(***************************************************************************)
Path(stem, suffix) == [stem |-> stem, suffix |-> suffix]

\* lines 72-77: the two files the program keeps, both in data/
DefaultPriceCachePath == Path("prices_ygopro", ".json")
DefaultNameMapPath == Path("ygopro_name_map", ".json")

CachePaths == {DefaultPriceCachePath, DefaultNameMapPath}

\* A mutant of WithSuffix: the path is left as it is, so that the temporary
\* file is the target itself.
WithSuffixKept(path, suffix) == path

\* path.with_suffix(suffix)
WithSuffix(path, suffix) == [path EXCEPT !.suffix = suffix]

NoFile == [exists |-> FALSE, text |-> <<>>, safe |-> 0]
File(text, safe) == [exists |-> TRUE, text |-> text, safe |-> safe]

ChunkOpen == [t |-> "{"]
ChunkClose == [t |-> "}"]
ChunkItem(key, value) == [t |-> "item", key |-> key, value |-> value]

\* A value of the price-cache dict, as handed to json.dump or returned by
\* json.loads: each field a str, a number, absent, or of another type.
DictEntry(name, price, updated_at, last_error) ==
    [t |-> "dict", name |-> name, cardmarket_price |-> price,
     updated_at |-> updated_at, last_error |-> last_error]

\* An entry of the kind load_price_cache and ensure_prices build, as a dict
AsDict(entry) ==
    DictEntry(NameStr(entry.name), RawNum(entry.cardmarket_price), entry.updated_at,
              IF entry.last_error = PyNone THEN NameAbsent ELSE NameStr(entry.last_error))

\* A value of the name-cache dict
NameId(v) == [t |-> "int", v |-> v]

\* json.dump(cache, handle): the chunks written, for a dict given as the
\* sequence of its items
JsonDump(items) ==
    <<ChunkOpen>> \o [i \in 1..Len(items) |-> ChunkItem(items[i][1], items[i][2])]
        \o <<ChunkClose>>

\* json.loads(text): the items of the object, or ok = FALSE for
\* JSONDecodeError
JsonLoads(text) ==
    IF /\ Len(text) >= 2
       /\ text[1] = ChunkOpen
       /\ text[Len(text)] = ChunkClose
       /\ \A i \in 2..(Len(text) - 1) : text[i].t = "item"
    THEN [ok |-> TRUE, items |-> SubSeq(text, 2, Len(text) - 1)]
    ELSE [ok |-> FALSE, items |-> <<>>]

\* float(price), lines 98-101: NoPrice for TypeError or ValueError
FloatOfPrice(price) ==
    IF price.t = "num" THEN SomePrice(price.v)
    ELSE IF price.t = "str" THEN ParseFloatText(price.s)
    ELSE NoPrice

\* A mutant of CleanedEntry: an entry without a str updated_at is kept.
CleanedEntryUndated(value) ==
    LET price_value == FloatOfPrice(value.cardmarket_price)
    IN  IF value.t # "dict" THEN NoEntry
        ELSE IF value.name.t # "str" THEN NoEntry
        ELSE IF ~price_value.ok THEN NoEntry
        ELSE Entry(value.name.v, price_value.cents, value.updated_at,
                   IF value.last_error.t = "str" /\ value.last_error.v # ""
                   THEN value.last_error.v ELSE PyNone)

\* load_price_cache, lines 91-109: cleaned_entry for one item, or NoEntry
\* when the item is skipped
CleanedEntry(value) ==
    LET price_value == FloatOfPrice(value.cardmarket_price)
    IN  IF value.t # "dict" THEN NoEntry
        ELSE IF value.name.t # "str" \/ value.updated_at.t \notin {"iso", "bad"}
        THEN NoEntry
        ELSE IF ~price_value.ok THEN NoEntry
        ELSE Entry(value.name.v, price_value.cents, value.updated_at,
                   IF value.last_error.t = "str" /\ value.last_error.v # ""
                   THEN value.last_error.v ELSE PyNone)

\* load_price_cache, lines 80-111
LoadPriceCache(file) ==
    IF ~file.exists THEN <<>>
    ELSE LET payload == JsonLoads(file.text)
             kept == {i \in 1..Len(payload.items) :
                         CleanedEntry(payload.items[i].value) # NoEntry}
         IN  IF ~payload.ok THEN <<>>
             ELSE [key \in {payload.items[i].key : i \in kept} |->
                      CleanedEntry(
                          payload.items[CHOOSE i \in kept : payload.items[i].key = key].value)]

\* Values of the fields of a dict entry: present with the right type,
\* present with another type, or absent.
SaveNames == {NameStr("Kuriboh"), NameStr(""), NameAbsent, NameNotStr}
SavePrices ==
    {RawNum(1234), RawNum(0), RawNum(0 - 150), RawStr(<<"1", "2", ".", "3", "4">>),
     RawStr(<<"a", "b", "c">>), RawNone, RawOther}
SaveStamps == {IsoStamp(Day0), BadStamp, NoStamp}
SaveErrors == {NameAbsent, NameStr("HTTP 503"), NameStr(""), NameNotStr}

DictEntries ==
    {DictEntry(n, p, u, e) : n \in SaveNames, p \in SavePrices, u \in SaveStamps,
                             e \in SaveErrors}

\* Price-cache dicts handed to save_price_cache_atomic, each as the
\* sequence of its items: the empty dict, every dict of one entry, and
\* dicts of two entries of which the second has a price but no timestamp,
\* or is one that ensure_prices wrote.
PriceMaps ==
    {<<>>}
        \cup {<<<<S87, d>>>> : d \in DictEntries}
        \cup {<<<<S87, AsDict(e)>>, <<S9, d>>>> :
                 e \in Entries87,
                 d \in {AsDict(g) : g \in Entries9}
                          \cup {DictEntry(NameStr("Kuriboh"), RawNum(50), NoStamp, NameAbsent),
                                AsDict(Entry("", 0, IsoStamp(Day0), "ReadTimeout()"))}}

NameMaps ==
    {<<>>, <<<<"dark magician", NameId(46986414)>>>>,
     <<<<"dark magician", NameId(46986414)>>, <<"kuriboh", NameId(40640057)>>>>}

\* What the files held before the save
OldItems(path) ==
    IF path = DefaultPriceCachePath
    THEN <<<<S9, AsDict(Entry("Kuriboh", 50, IsoStamp(Day0 - 1), PyNone))>>>>
    ELSE <<<<"kuriboh", NameId(40640057)>>>>

WholeFile(items) == File(JsonDump(items), Len(JsonDump(items)))

\* temp_path, line 116
TempPath(path) == WithSuffix(path, ".tmp")

AllPaths == CachePaths \cup {TempPath(p) : p \in CachePaths}

NoLoad == [t |-> "none"]
Loaded(c) == [t |-> "loaded", cache |-> c]

SaveStart(path, items, target, leftover) ==
    LET files == [p \in AllPaths |->
                     IF p = path THEN target
                     ELSE IF p = TempPath(path) THEN leftover
                     ELSE IF p \in CachePaths THEN WholeFile(OldItems(p))
                     ELSE NoFile]
    IN  [pc |-> "start", path |-> path, items |-> items, next |-> 1, buf |-> <<>>,
         files |-> files, old |-> files, crashed |-> FALSE, loaded |-> NoLoad]

SaveInit ==
    /\ \E path \in CachePaths :
          \E items \in IF path = DefaultPriceCachePath THEN PriceMaps ELSE NameMaps,
             target \in {NoFile, WholeFile(OldItems(path))},
             leftover \in {NoFile, File(<<ChunkOpen>>, 1)} :
                disk = SaveStart(path, items, target, leftover)
    /\ rq = RqParked
    /\ LimiterParked
    /\ CycleParked
    /\ PureParked
    /\ ResolveParked
    /\ AppParked

SaveRunning == {"start", "dump", "dumped", "flushed", "synced", "closed"}

\* lines 115-117: mkdir, temp_path, open(temp_path, "w") truncates
SaveOpen ==
    /\ disk.pc = "start"
    /\ disk' = [disk EXCEPT !.pc = "dump",
                            !.files[TempPath(disk.path)] = File(<<>>, 0)]
    /\ UNCHANGED <<limiterVars, rq, cycleVars, pf, rs, app>>

\* line 118: json.dump writes the next chunk into the buffer of the handle
SaveDump ==
    /\ disk.pc = "dump"
    /\ LET chunks == JsonDump(disk.items)
       IN  disk' = [disk EXCEPT !.buf = Append(disk.buf, chunks[disk.next]),
                                !.next = disk.next + 1,
                                !.pc = IF disk.next = Len(chunks) THEN "dumped" ELSE "dump"]
    /\ UNCHANGED <<limiterVars, rq, cycleVars, pf, rs, app>>

\* The buffer of the handle goes to the operating system
Flushed(d) ==
    [d EXCEPT !.buf = <<>>,
              !.files[TempPath(d.path)].text = d.files[TempPath(d.path)].text \o d.buf]

\* line 118: the buffer is full and is written out before the dump is over
SaveSpill ==
    /\ disk.pc \in {"dump", "dumped"}
    /\ disk.buf # <<>>
    /\ disk' = Flushed(disk)
    /\ UNCHANGED <<limiterVars, rq, cycleVars, pf, rs, app>>

\* line 119: handle.flush()
SaveFlush ==
    /\ disk.pc = "dumped"
    /\ disk' = [Flushed(disk) EXCEPT !.pc = "flushed"]
    /\ UNCHANGED <<limiterVars, rq, cycleVars, pf, rs, app>>

\* line 120: os.fsync(handle.fileno())
SaveFsync ==
    /\ disk.pc = "flushed"
    /\ disk' = [disk EXCEPT !.pc = "synced",
                            !.files[TempPath(disk.path)].safe =
                                Len(disk.files[TempPath(disk.path)].text)]
    /\ UNCHANGED <<limiterVars, rq, cycleVars, pf, rs, app>>

\* the end of the with block closes the handle
SaveClose ==
    /\ disk.pc = "synced"
    /\ disk' = [disk EXCEPT !.pc = "closed"]
    /\ UNCHANGED <<limiterVars, rq, cycleVars, pf, rs, app>>

\* line 121: temp_path.replace(path)
SaveReplace ==
    /\ disk.pc = "closed"
    /\ disk' = [disk EXCEPT !.pc = "done",
                            !.files = [p \in AllPaths |->
                                          IF p = disk.path THEN disk.files[TempPath(disk.path)]
                                          ELSE IF p = TempPath(disk.path) THEN NoFile
                                          ELSE disk.files[p]]]
    /\ UNCHANGED <<limiterVars, rq, cycleVars, pf, rs, app>>

\* The process dies: what its buffer held is lost
SaveCrash ==
    /\ disk.pc \in SaveRunning
    /\ disk' = [disk EXCEPT !.pc = "crashed", !.crashed = TRUE, !.buf = <<>>]
    /\ UNCHANGED <<limiterVars, rq, cycleVars, pf, rs, app>>

\* The power fails: of each file at least the synced part survives, and a
\* rename that was not yet on the medium may be undone
SavePowerLoss ==
    /\ disk.pc \in SaveRunning \cup {"done"}
    /\ LET tmp == TempPath(disk.path)
           f == disk.files[tmp]
       IN  \/ /\ f.exists
              /\ \E n \in f.safe..Len(f.text) :
                    disk' = [disk EXCEPT !.pc = "crashed", !.crashed = TRUE, !.buf = <<>>,
                                         !.files[tmp] = File(SubSeq(f.text, 1, n), n)]
           \/ /\ ~f.exists
              /\ \E undone \in {FALSE, disk.pc = "done"} :
                    disk' = [disk EXCEPT
                                !.pc = "crashed", !.crashed = TRUE, !.buf = <<>>,
                                !.files = IF undone
                                          THEN [p \in AllPaths |->
                                                   IF p = disk.path THEN disk.old[p]
                                                   ELSE IF p = tmp THEN disk.files[disk.path]
                                                   ELSE disk.files[p]]
                                          ELSE disk.files]
    /\ UNCHANGED <<limiterVars, rq, cycleVars, pf, rs, app>>

\* a later run reads the price cache: load_price_cache(path)
SaveLoad ==
    /\ disk.pc \in {"done", "crashed"}
    /\ disk.path = DefaultPriceCachePath
    /\ disk' = [disk EXCEPT !.pc = "loaded",
                            !.loaded = Loaded(LoadPriceCache(disk.files[disk.path]))]
    /\ UNCHANGED <<limiterVars, rq, cycleVars, pf, rs, app>>

SaveNext ==
    \/ SaveOpen \/ SaveDump \/ SaveSpill \/ SaveFlush \/ SaveFsync \/ SaveClose
    \/ SaveReplace \/ SaveCrash \/ SavePowerLoss \/ SaveLoad

SpecSave == SaveInit /\ [][SaveNext]_vars

(***************************************************************************)
(* Claims about the cache files (SpecSave).                                *)
(***************************************************************************)
\* The whole JSON text of the dict being saved, all of it on the medium.
NewContent ==
    LET text == <<[t |-> "{"]>>
                    \o [i \in 1..Len(disk.items) |->
                           [t |-> "item", key |-> disk.items[i][1], value |-> disk.items[i][2]]]
                    \o <<[t |-> "}"]>>
    IN  [exists |-> TRUE, text |-> text, safe |-> Len(text)]

TheTempPath == [disk.path EXCEPT !.suffix = ".tmp"]

\* C11: whenever save_*_cache_atomic is interrupted, the file at the target
\* path holds the complete previous content or the complete new content;
\* and the target changes only by the final rename of the temporary file,
\* then fully written and synced (or by a power failure undoing a rename
\* that was not yet on the medium, which brings the previous content back).
C11_TargetOldOrNewAndOnlyRenamed ==
    [][/\ \A p \in {[stem |-> "prices_ygopro", suffix |-> ".json"],
                    [stem |-> "ygopro_name_map", suffix |-> ".json"]} :
             \/ disk'.files[p] = disk.old[p]
             \/ p = disk.path /\ disk'.files[p] = NewContent
       /\ disk'.files[disk.path] # disk.files[disk.path] =>
             \/ /\ disk.pc = "closed"
                /\ disk'.pc = "done"
                /\ disk.files[TheTempPath] = NewContent
             \/ /\ disk.pc = "done"
                /\ disk'.pc = "crashed"
                /\ disk'.files[disk.path] = disk.old[disk.path]]_vars

\* C11 witness: the save was interrupted with part of the new text in the
\* temporary file, and the target still holds the previous content.
C11_Witness ==
    /\ disk.pc = "crashed"
    /\ disk.files[TheTempPath].exists
    /\ Len(disk.files[TheTempPath].text) \in 1..(Len(disk.items) + 1)
    /\ disk.old[disk.path].exists
    /\ disk.files[disk.path] = disk.old[disk.path]
    /\ disk.files[disk.path] # NewContent

\* The save has run to its end and the file has been loaded again.
SavedAndLoaded == disk.pc = "loaded" /\ ~disk.crashed

\* last_error as it is in a loaded entry when it was e in the saved one.
SameError(e, loaded) ==
    \/ e.t = "absent" /\ loaded = PyNone
    \/ e.t = "str" /\ loaded = e.v

PriceAccepted(price) ==
    price.t = "num" \/ price = [t |-> "str", s |-> <<"1", "2", ".", "3", "4">>, v |-> 0]

PriceAsFloat(price) == IF price.t = "num" THEN price.v ELSE 1234

LowerChar(c) ==
    CASE c = "D" -> "d"
      [] c = "M" -> "m"
      [] c = "K" -> "k"
      [] c = "U" -> "u"
      [] c = "X" -> "x"
      [] c = "Y" -> "y"
      [] OTHER -> c

StrLower(s) == [i \in 1..Len(s) |-> LowerChar(s[i])]

\* The cards of assets/cards.json, in file order
CatalogCards ==
    <<Card(IdInt(87), NameStr(<<"D", "m">>), PricesAbsent),
      Card(IdInt(40), NameStr(<<"K", "u">>), PricesAbsent)>>

\* load_cards()["by_name"]: by_name[name.lower()] = card, later cards
\* replacing earlier ones of the same lower-cased name
RECURSIVE ByNameOf(_)
ByNameOf(cards) ==
    IF cards = <<>> THEN <<>>
    ELSE LET rest == ByNameOf(SubSeq(cards, 1, Len(cards) - 1))
             card == cards[Len(cards)]
         IN  IF card.name.t = "str"
             THEN [k \in DOMAIN rest \cup {StrLower(card.name.v)} |->
                      IF k = StrLower(card.name.v) THEN card ELSE rest[k]]
             ELSE rest

LoadCardsByName == ByNameOf(CatalogCards)

\* get_card_by_name(name) with the dataset loaded: the card, or None
GetCardByName(name) ==
    IF name = <<>> THEN CardNotDict
    ELSE IF StrLower(name) \in DOMAIN LoadCardsByName
    THEN LoadCardsByName[StrLower(name)]
    ELSE CardNotDict

NoFetchedId == [t |-> "none", id |-> 0, name |-> <<>>]
FetchedId(id, name) == [t |-> "pair", id |-> id, name |-> name]

\* fetch_card_id_by_name, lines 291-303, on what _request_payload returned
FetchCardIdByName(has_payload, payload) ==
    IF ~has_payload \/ payload.empty \/ payload.data.t = "absent" THEN NoFetchedId
    ELSE IF payload.data.t # "list" \/ payload.data.items = <<>> THEN NoFetchedId
    ELSE LET card == payload.data.items[1] IN
    IF card.t # "dict" THEN NoFetchedId
    ELSE IF card.id.t # "int" \/ card.name.t # "str" THEN NoFetchedId
    ELSE FetchedId(card.id.v, card.name.v)

\* name_cache.get(key), None as 0 being as falsy as 0 itself
NameCacheGet(c, key) == IF key \in DOMAIN c THEN c[key] ELSE 0

\* name_cache[key] = card_id
NameCachePut(c, key, card_id) ==
    [k \in DOMAIN c \cup {key} |-> IF k = key THEN card_id ELSE c[k]]

\* name_cache.setdefault(key, card_id)
NameCacheSetDefault(c, key, card_id) ==
    IF key \in DOMAIN c THEN c ELSE NameCachePut(c, key, card_id)

NoResult == [t |-> "none", v |-> 0]
ResultId(v) == [t |-> "int", v |-> v]

\* The names of deck entries handed to resolve_card_id
ResolveNames ==
    {<<>>, <<" ">>, <<"D", "m">>, <<"d", "M">>, <<" ", "D", "m">>, <<"D", "m", " ">>,
     <<"K", "u">>, <<"X", "y">>, <<" ", "X", "y", " ">>}

\* Name caches that load_name_cache returns
LoadedNameCaches ==
    {<<>>,
     (<<"d", "m">> :> 87),
     (<<"x", "y">> :> 55),
     (<<"x", "y">> :> 0),
     (<<"d", "m">> :> 87) @@ (<<"k", "u">> :> 41)}

IdPayload(id, name) == Payload(DataList(<<Card(id, name, PricesAbsent)>>))

\* What the server does to the requests of one external lookup
ResolveScripts ==
    {<<NetError("timeout")>>,
     <<NetError("timeout"), Ok200(IdPayload(IdInt(55), NameStr(<<"X", "y">>)))>>,
     <<Ok200(IdPayload(IdInt(87), NameStr(<<"D", "m">>)))>>,
     <<Ok200(IdPayload(IdInt(40), NameStr(<<"K", "U">>)))>>,
     <<Ok200(IdPayload(IdAbsent, NameStr(<<"X", "y">>)))>>,
     <<Ok200(Payload(DataList(<<>>)))>>,
     <<Http(503, HdrHuge, BodyNone)>>}

ResolveIdle(name_cache, catalog) ==
    [pc |-> "idle", catalog |-> catalog, name_cache |-> name_cache,
     before |-> name_cache, name |-> <<>>, key |-> <<>>,
     catalog_gets |-> 0, gets |-> 0, ret |-> NoResult]

ResolveInit ==
    /\ LimiterParked
    /\ rq = RqParked
    /\ CycleParked
    /\ PureParked
    /\ SaveParked
    /\ AppParked
    /\ \E c \in LoadedNameCaches, catalog \in {"loaded", "missing"} :
          rs = ResolveIdle(c, catalog)

ResolveUnchanged == UNCHANGED <<limiterVars, rq, cycleVars, pf, disk, app>>

\* Lines 312-319: the guards, the key and the look into the name cache
ResolveCall ==
    /\ rs.pc = "idle"
    /\ \E name \in ResolveNames :
          LET key == StrLower(Strip(name))
              cached == NameCacheGet(rs.name_cache, key)
              f == [rs EXCEPT !.name = name, !.before = rs.name_cache,
                              !.catalog_gets = 0, !.gets = 0, !.ret = NoResult]
          IN  rs' = IF name = <<>> THEN [f EXCEPT !.pc = "returned"]
                    ELSE IF key = <<>> THEN [f EXCEPT !.pc = "returned", !.key = key]
                    ELSE IF cached # 0
                    THEN [f EXCEPT !.pc = "returned", !.key = key, !.ret = ResultId(cached)]
                    ELSE [f EXCEPT !.pc = "catalog", !.key = key]
    /\ ResolveUnchanged

\* Lines 320-324: get_card_by_name(name); _load_json_asset raises
\* FileNotFoundError when the dataset is not there
ResolveCatalog ==
    /\ rs.pc = "catalog"
    /\ LET card == GetCardByName(rs.name)
           f == [rs EXCEPT !.catalog_gets = rs.catalog_gets + 1]
       IN  rs' = IF rs.catalog = "missing" THEN [f EXCEPT !.pc = "raised"]
                 ELSE IF card.t = "dict" /\ card.id.t = "int"
                 THEN [f EXCEPT !.pc = "returned", !.ret = ResultId(card.id.v),
                                !.name_cache = NameCachePut(rs.name_cache, rs.key, card.id.v)]
                 ELSE [f EXCEPT !.pc = "fetch"]
    /\ ResolveUnchanged

\* Lines 325-331: the external lookup and what is recorded of its answer
ResolveFetch ==
    /\ rs.pc = "fetch"
    /\ \E script \in ResolveScripts :
          LET r == RunRequest(RqStart(NewRateLimiter(MAX_REQUESTS_PER_SECOND), 0), script)
              fetched == FetchCardIdByName(r.has_payload, r.payload)
              f == [rs EXCEPT !.gets = r.gets]
          IN  rs' = IF r.pc = "raised" THEN [f EXCEPT !.pc = "raised"]
                    ELSE IF fetched.t = "none" THEN [f EXCEPT !.pc = "returned"]
                    ELSE [f EXCEPT !.pc = "returned", !.ret = ResultId(fetched.id),
                                   !.name_cache =
                                       NameCacheSetDefault(
                                           NameCachePut(rs.name_cache, rs.key, fetched.id),
                                           StrLower(fetched.name), fetched.id)]
    /\ ResolveUnchanged

\* The caller goes on to its next name with the same name cache
\* (_resolve_entry_ids, pdf_overview.py lines 59-68)
ResolveReturn ==
    /\ rs.pc = "returned"
    /\ rs' = ResolveIdle(rs.name_cache, rs.catalog)
    /\ ResolveUnchanged

ResolveNext == ResolveCall \/ ResolveCatalog \/ ResolveFetch \/ ResolveReturn

SpecResolve == ResolveInit /\ [][ResolveNext]_vars

(***************************************************************************)
(* Claims about resolve_card_id (SpecResolve).                             *)
(***************************************************************************)
\* The trimmed, lower-cased name of the call in progress.
TrimmedLowerName == StrLower(Strip(rs.name))

InNameCacheAtCall == TrimmedLowerName \in DOMAIN rs.before

\* The lower-cased names of the catalog's cards.
CatalogNames == {<<"d", "m">>, <<"k", "u">>}

CatalogIdOf(key) == IF key = <<"d", "m">> THEN 87 ELSE 40

\* C20: resolve_card_id issues an external lookup only when the trimmed,
\* lower-cased name is bound neither in the name cache nor in the card
\* catalog; a name-cache hit returns the cached id without consulting
\* catalog or network; a catalog hit returns the catalog id, records it in
\* the name cache and makes no external request.
C20_ExternalLookupOnlyWhenUnbound ==
    (rs.pc \in {"catalog", "fetch", "returned", "raised"} /\ rs.catalog = "loaded"
        /\ TrimmedLowerName # <<>>) =>
        /\ rs.pc = "fetch" \/ rs.gets > 0 =>
              ~InNameCacheAtCall /\ TrimmedLowerName \notin CatalogNames
        /\ InNameCacheAtCall =>
              /\ rs.pc = "returned"
              /\ rs.ret = [t |-> "int", v |-> rs.before[TrimmedLowerName]]
              /\ rs.catalog_gets = 0
              /\ rs.gets = 0
        /\ (~InNameCacheAtCall /\ TrimmedLowerName \in CatalogNames /\ rs.pc = "returned") =>
              /\ rs.ret = [t |-> "int", v |-> CatalogIdOf(TrimmedLowerName)]
              /\ TrimmedLowerName \in DOMAIN rs.name_cache
              /\ rs.name_cache[TrimmedLowerName] = CatalogIdOf(TrimmedLowerName)
              /\ rs.gets = 0

\* C20 witness: the name has blanks around it, its trimmed, lower-cased
\* form is a catalog name not in the name cache, and resolve_card_id has
\* looked into the catalog and then sent an external request.
C20_Witness ==
    /\ rs.pc = "returned"
    /\ rs.catalog = "loaded"
    /\ rs.name # Strip(rs.name)
    /\ ~InNameCacheAtCall
    /\ TrimmedLowerName \in CatalogNames
    /\ rs.catalog_gets = 1
    /\ rs.gets > 0

\* C21: across any sequence of resolve_card_id calls on one name cache, the
\* one loaded from disk included, the cache only grows: every key bound
\* when a call starts is still bound, and to the same id, at every later
\* point of the call (and so of every later call).
C21_NameCacheOnlyGrows ==
    rs.pc # "parked" =>
        \A k \in DOMAIN rs.before :
            k \in DOMAIN rs.name_cache /\ rs.name_cache[k] = rs.before[k]

\* C21 witness: a key that load_name_cache bound to 0 has been bound to
\* the id of the external lookup by a resolve_card_id call.
C21_Witness ==
    /\ rs.pc = "returned"
    /\ rs.key \in DOMAIN rs.before
    /\ rs.before[rs.key] = 0
    /\ rs.gets > 0
    /\ rs.name_cache[rs.key] # 0

\* C22: with the card catalog dataset absent, resolve_card_id on a
\* name-cache miss does not raise: the missing catalog counts as a catalog
\* miss, and the call returns after the external lookup, with the id it
\* found or with None.
C22_MissingCatalogIsSoft ==
    (rs.pc \in {"catalog", "fetch", "returned", "raised"} /\ rs.catalog = "missing") =>
        /\ rs.pc # "raised"
        /\ (rs.pc = "returned" /\ rs.catalog_gets > 0) => rs.gets > 0

\* C22 witness: the dataset is absent, the name is not in the name cache,
\* and the call has ended in the FileNotFoundError of the catalog lookup,
\* before any external request.
C22_Witness ==
    /\ rs.catalog = "missing"
    /\ rs.pc = "raised"
    /\ StrLower(Strip(rs.name)) \notin DOMAIN rs.before
    /\ rs.catalog_gets = 1
    /\ rs.gets = 0

(***************************************************************************)
(* The deck functions: yugioh_data.py (rarity hierarchies), sort_utils.py  *)
(* (canonical order) and pdf_overview.py (_split_upgrade_rarities).  Texts *)
(* are sequences of letters; a type label is the set of the words of       *)
(* _key_from_type_label that occur in it, lower-cased.                     *)
(***************************************************************************)
\* The code points of the letters of the model, in order
LetterOrd(c) ==
    CASE c = "D" -> 1 [] c = "K" -> 2 [] c = "M" -> 3
      [] c = "U" -> 4 [] c = "X" -> 5 [] c = "Y" -> 6
      [] c = "d" -> 7 [] c = "k" -> 8 [] c = "m" -> 9
      [] c = "u" -> 10 [] c = "x" -> 11 [] c = "y" -> 12
      [] OTHER -> 0

\* a < b on str
RECURSIVE TextLess(_, _)
TextLess(a, b) ==
    IF b = <<>> THEN FALSE
    ELSE IF a = <<>> THEN TRUE
    ELSE IF LetterOrd(Head(a)) # LetterOrd(Head(b))
    THEN LetterOrd(Head(a)) < LetterOrd(Head(b))
    ELSE TextLess(Tail(a), Tail(b))

RARITY_HIERARCHY_DEFAULT == "effect_monster"

\* FRAME_TYPE_TO_HIERARCHY_KEY.get(frame_type), None as ""
FrameTypeToHierarchyKey(frame_type) ==
    CASE frame_type = "normal" -> "normal_monster"
      [] frame_type = "effect" -> "effect_monster"
      [] frame_type \in {"spell", "trap", "fusion", "synchro", "xyz", "link", "ritual",
                         "token"} -> frame_type
      [] frame_type \in {"pendulum_normal", "normal_pendulum"} -> "pendulum_normal"
      [] frame_type \in {"pendulum_effect", "effect_pendulum"} -> "pendulum_effect"
      [] frame_type \in {"pendulum_ritual", "ritual_pendulum"} -> "pendulum_ritual"
      [] frame_type \in {"pendulum_fusion", "fusion_pendulum"} -> "pendulum_fusion"
      [] frame_type \in {"pendulum_synchro", "synchro_pendulum"} -> "pendulum_synchro"
      [] frame_type \in {"pendulum_xyz", "xyz_pendulum"} -> "pendulum_xyz"
      [] OTHER -> ""

\* _pendulum_key_from_type(type_label), None as ""
PendulumKeyFromType(type_label) ==
    IF "pendulum" \notin type_label THEN ""
    ELSE IF "normal" \in type_label THEN "pendulum_normal"
    ELSE IF "ritual" \in type_label THEN "pendulum_ritual"
    ELSE IF "fusion" \in type_label THEN "pendulum_fusion"
    ELSE IF "synchro" \in type_label THEN "pendulum_synchro"
    ELSE IF "xyz" \in type_label THEN "pendulum_xyz"
    ELSE "pendulum_effect"

\* _key_from_type_label(type_label), None as ""
KeyFromTypeLabel(type_label) ==
    IF PendulumKeyFromType(type_label) # "" THEN PendulumKeyFromType(type_label)
    ELSE IF "spell" \in type_label THEN "spell"
    ELSE IF "trap" \in type_label THEN "trap"
    ELSE IF "token" \in type_label THEN "token"
    ELSE IF "ritual" \in type_label THEN "ritual"
    ELSE IF "fusion" \in type_label THEN "fusion"
    ELSE IF "synchro" \in type_label THEN "synchro"
    ELSE IF "xyz" \in type_label THEN "xyz"
    ELSE IF "link" \in type_label THEN "link"
    ELSE IF "normal" \in type_label THEN "normal_monster"
    ELSE IF "effect" \in type_label THEN "effect_monster"
    ELSE ""

\* str(card.get("frameType", "")).lower(), for the frame types of the model
FrameLower(frame_type) ==
    CASE frame_type = "Fusion" -> "fusion"
      [] frame_type = "Effect_Pendulum" -> "effect_pendulum"
      [] OTHER -> frame_type

\* No card (None, or an empty dict), and a card with its two attributes
NoCard == [t |-> "none", frameType |-> "", type |-> {}]
CardOfType(frame_type, type_label) ==
    [t |-> "dict", frameType |-> frame_type, type |-> type_label]

\* rarity_hierarchy_key_for_card(card)
RarityHierarchyKeyForCard(card) ==
    IF card.t = "none" THEN RARITY_HIERARCHY_DEFAULT
    ELSE IF FrameLower(card.frameType) # ""
            /\ FrameTypeToHierarchyKey(FrameLower(card.frameType)) # ""
    THEN FrameTypeToHierarchyKey(FrameLower(card.frameType))
    ELSE IF KeyFromTypeLabel(card.type) # "" THEN KeyFromTypeLabel(card.type)
    ELSE RARITY_HIERARCHY_DEFAULT

\* A dict of tables is the sequence of its items <<key, table>>, in
\* insertion order; a table is a function from labels to weights.
HasTable(hierarchies, key) == \E i \in 1..Len(hierarchies) : hierarchies[i][1] = key
TableOf(hierarchies, key) ==
    hierarchies[CHOOSE i \in 1..Len(hierarchies) : hierarchies[i][1] = key][2]

\* A mutant of SelectRarityHierarchy: no fallback to the default key
SelectRarityHierarchyNoDefault(hierarchies, card) ==
    IF HasTable(hierarchies, RarityHierarchyKeyForCard(card))
    THEN TableOf(hierarchies, RarityHierarchyKeyForCard(card))
    ELSE IF hierarchies # <<>> THEN hierarchies[1][2]
    ELSE <<>>

\* select_rarity_hierarchy(hierarchies, card)
SelectRarityHierarchy(hierarchies, card) ==
    IF HasTable(hierarchies, RarityHierarchyKeyForCard(card))
    THEN TableOf(hierarchies, RarityHierarchyKeyForCard(card))
    ELSE IF HasTable(hierarchies, RARITY_HIERARCHY_DEFAULT)
    THEN TableOf(hierarchies, RARITY_HIERARCHY_DEFAULT)
    ELSE IF hierarchies # <<>> THEN hierarchies[1][2]
    ELSE <<>>

\* hierarchy.get(rarity or "", 0)
RarityWeight(hierarchy, rarity) ==
    IF rarity \in DOMAIN hierarchy THEN hierarchy[rarity] ELSE 0

\* A DeckEntry (deck_model.py lines 7-15)
DeckEntry(section, amount, name_eng, name_ger, card_id, set_code, rarity) ==
    [section |-> section, amount |-> amount, name_eng |-> name_eng,
     name_ger |-> name_ger, card_id |-> card_id, set_code |-> set_code,
     rarity |-> rarity]

\* SECTION_ORDER.get(section, 99)
section_rank(section) ==
    CASE section = "Main" -> 0
      [] section = "Extra" -> 1
      [] section = "Side" -> 2
      [] OTHER -> 99

\* value.casefold() if value else ""
SafeCasefold(value) == StrLower(value)

\* frameType and type of the cards of assets/cards.json, by id
CatalogTypes ==
    (87 :> CardOfType("normal", {"normal"})) @@ (40 :> CardOfType("", {"spell"}))

\* get_card_by_id(card_id) with the dataset loaded: the card, or None
GetCardById(card_id) ==
    IF \E i \in 1..Len(CatalogCards) : CatalogCards[i].id = IdInt(card_id)
    THEN CatalogCards[CHOOSE i \in 1..Len(CatalogCards) :
                         /\ CatalogCards[i].id = IdInt(card_id)
                         /\ \A j \in (i + 1)..Len(CatalogCards) :
                               CatalogCards[j].id # IdInt(card_id)]
    ELSE CardNotDict

\* _lookup_card(entry) of sort_utils.py: by id first, then by name; a
\* card_id that is no number and a missing dataset both give None
LookupCard(entry, catalog) ==
    LET id == ParseInt(Strip(entry.card_id))
        by_id == IF entry.card_id # <<>> /\ id.ok /\ catalog = "loaded"
                 THEN GetCardById(id.v) ELSE CardNotDict
        card == IF by_id.t # "dict" /\ entry.name_eng # <<>> /\ catalog = "loaded"
                THEN GetCardByName(entry.name_eng) ELSE by_id
    IN  IF card.t = "dict" /\ card.id.t = "int" THEN CatalogTypes[card.id.v] ELSE NoCard

\* What load_rarity_hierarchy_main() gives: the dict of tables of the
\* asset, or FileNotFoundError when the asset is not there
MissingAsset == [t |-> "missing", tables |-> <<>>]
LoadedAsset(tables) == [t |-> "loaded", tables |-> tables]

\* rarity_rank_for_entry(entry, card_dict), the asset being loaded
RarityRankForEntry(entry, card_dict, tables) ==
    RarityWeight(SelectRarityHierarchy(tables, card_dict), entry.rarity)

\* A mutant of CanonicalSortKey: the name comes before the section
CanonicalSortKeyNameFirst(entry, catalog, tables) ==
    <<0,
      SafeCasefold(IF entry.name_ger # <<>> THEN entry.name_ger ELSE entry.name_eng),
      SafeCasefold(entry.name_eng),
      SafeCasefold(entry.set_code),
      section_rank(entry.section),
      SafeCasefold(entry.rarity),
      entry.amount>>

\* canonical_sort_key(entry), the asset being loaded
CanonicalSortKey(entry, catalog, tables) ==
    <<section_rank(entry.section),
      SafeCasefold(IF entry.name_ger # <<>> THEN entry.name_ger ELSE entry.name_eng),
      SafeCasefold(entry.name_eng),
      SafeCasefold(entry.set_code),
      RarityRankForEntry(entry, LookupCard(entry, catalog), tables),
      SafeCasefold(entry.rarity),
      entry.amount>>

\* a < b on the tuples that canonical_sort_key returns
RECURSIVE KeyLessFrom(_, _, _)
KeyLessFrom(a, b, i) ==
    IF i > Len(a) THEN FALSE
    ELSE IF a[i] # b[i]
    THEN IF i \in {1, 5, 7} THEN a[i] < b[i] ELSE TextLess(a[i], b[i])
    ELSE KeyLessFrom(a, b, i + 1)

KeyLess(a, b) == KeyLessFrom(a, b, 1)

\* sorted(items, key=...) on a list of <<key, item>> pairs: stable
RECURSIVE SortedByKey(_)
SortedByKey(q) ==
    IF q = <<>> THEN <<>>
    ELSE LET i == CHOOSE i \in 1..Len(q) :
                     /\ \A j \in 1..Len(q) : ~KeyLess(q[j][1], q[i][1])
                     /\ \A j \in 1..(i - 1) : KeyLess(q[i][1], q[j][1])
         IN  <<q[i][2]>> \o SortedByKey(SubSeq(q, 1, i - 1) \o SubSeq(q, i + 1, Len(q)))

RaisedList == [t |-> "raised", list |-> <<>>]
ListOf(list) == [t |-> "list", list |-> list]

\* canonical_sort_entries(entries): the sorted list, or the
\* FileNotFoundError of the first key when the rarity asset is missing
CanonicalSortEntries(entries, catalog, asset) ==
    IF entries = <<>> THEN ListOf(<<>>)
    ELSE IF asset.t = "missing" THEN RaisedList
    ELSE ListOf(SortedByKey([i \in 1..Len(entries) |->
                               <<CanonicalSortKey(entries[i], catalog, asset.tables),
                                 entries[i]>>]))

OPTIONAL_MAX_DELTA == 5
RECOMMENDED_MIN_DELTA == 6

\* max(hierarchy.get(rarity, 0) for rarity in rarities), rarities not empty
BestWeight(rarities, hierarchy) ==
    CHOOSE w \in {RarityWeight(hierarchy, rarities[i]) : i \in 1..Len(rarities)} :
        \A i \in 1..Len(rarities) : RarityWeight(hierarchy, rarities[i]) <= w

\* A mutant of SplitUpgradeRarities: optional reaches up to the
\* recommended threshold itself
SplitUpgradeRaritiesOverlapping(rarities, hierarchy, current_weight) ==
    LET W(r) == RarityWeight(hierarchy, r)
        higher_rarities == SelectSeq(rarities, LAMBDA r : W(r) > current_weight)
    IN  IF higher_rarities = <<>> THEN [recommended |-> <<>>, optional |-> <<>>]
        ELSE IF BestWeight(higher_rarities, hierarchy) - current_weight
                    >= RECOMMENDED_MIN_DELTA
        THEN [recommended |->
                  SelectSeq(higher_rarities,
                            LAMBDA r : W(r) >= current_weight + RECOMMENDED_MIN_DELTA),
              optional |->
                  SelectSeq(higher_rarities,
                            LAMBDA r : current_weight < W(r)
                                       /\ W(r) <= current_weight + RECOMMENDED_MIN_DELTA)]
        ELSE [recommended |-> <<>>, optional |-> higher_rarities]

\* A mutant of SplitUpgradeRarities: a small delta recommends as well
SplitUpgradeRaritiesEager(rarities, hierarchy, current_weight) ==
    LET W(r) == RarityWeight(hierarchy, r)
        higher_rarities == SelectSeq(rarities, LAMBDA r : W(r) > current_weight)
    IN  [recommended |->
             SelectSeq(higher_rarities,
                       LAMBDA r : W(r) >= current_weight + RECOMMENDED_MIN_DELTA)
                 \o (IF higher_rarities # <<>>
                        /\ BestWeight(higher_rarities, hierarchy) - current_weight
                               < RECOMMENDED_MIN_DELTA
                     THEN <<higher_rarities[1]>> ELSE <<>>),
         optional |->
             SelectSeq(higher_rarities,
                       LAMBDA r : current_weight < W(r)
                                  /\ W(r) <= current_weight + OPTIONAL_MAX_DELTA)]

\* _split_upgrade_rarities(rarities, hierarchy, current_weight)
SplitUpgradeRarities(rarities, hierarchy, current_weight) ==
    LET W(r) == RarityWeight(hierarchy, r)
        higher_rarities == SelectSeq(rarities, LAMBDA r : W(r) > current_weight)
    IN  IF higher_rarities = <<>> THEN [recommended |-> <<>>, optional |-> <<>>]
        ELSE IF BestWeight(higher_rarities, hierarchy) - current_weight
                    >= RECOMMENDED_MIN_DELTA
        THEN [recommended |->
                  SelectSeq(higher_rarities,
                            LAMBDA r : W(r) >= current_weight + RECOMMENDED_MIN_DELTA),
              optional |->
                  SelectSeq(higher_rarities,
                            LAMBDA r : current_weight < W(r)
                                       /\ W(r) <= current_weight + OPTIONAL_MAX_DELTA)]
        ELSE [recommended |-> <<>>, optional |-> higher_rarities]

(***************************************************************************)
(* SpecDeck: one call of a deck function on inputs drawn from bounded sets *)
(***************************************************************************)
\* Rarity labels: three that tables know, a case variant, and the empty one
LabelK == <<"K">>
LabelU == <<"U">>
LabelX == <<"X">>
Labels == {LabelK, LabelU, LabelX, <<"u">>, <<>>}

TableA == (LabelK :> 1) @@ (LabelU :> 6) @@ (LabelX :> 7)
TableB == (LabelK :> 3) @@ (LabelU :> 2)

\* Table sets a rarity hierarchy asset may hold
TableSets ==
    {<<>>,
     <<<<"effect_monster", TableA>>>>,
     <<<<"spell", TableB>>>>,
     <<<<"normal_monster", TableB>>, <<"effect_monster", TableA>>>>,
     <<<<"spell", TableB>>, <<"effect_monster", TableA>>>>,
     <<<<"spell", TableB>>, <<"trap", TableA>>>>}

\* Cards handed to select_rarity_hierarchy
TypedCards ==
    {NoCard, CardOfType("normal", {"normal"}), CardOfType("", {"spell"}),
     CardOfType("Fusion", {"fusion", "effect"}), CardOfType("skill", {"pendulum", "effect"}),
     CardOfType("Effect_Pendulum", {"effect"}), CardOfType("", {"pendulum", "xyz"}),
     CardOfType("", {})}

NameDm == <<"D", "m">>
NameKu == <<"K", "u">>
NameXy == <<"X", "y">>

\* Deck entries: resolved by id, by name, and by neither
DeckEntries ==
    {DeckEntry("Main", 1, NameDm, <<>>, <<>>, <<>>, LabelK),
     DeckEntry("Main", 3, NameKu, <<>>, <<"4", "0">>, <<>>, LabelU),
     DeckEntry("Main", 1, NameXy, <<>>, <<>>, <<>>, LabelU),
     DeckEntry("Main", 1, NameXy, <<>>, <<"x">>, <<>>, <<"u">>),
     DeckEntry("Extra", 1, NameDm, <<"Y">>, <<>>, <<>>, LabelU),
     DeckEntry("Extra", 1, <<"d", "m">>, <<>>, <<>>, <<"K">>, LabelX),
     DeckEntry("Extra", 2, NameDm, <<>>, <<"9">>, <<>>, LabelK),
     DeckEntry("Side", 1, NameDm, <<>>, <<>>, <<>>, LabelK),
     DeckEntry("Side", 2, NameKu, <<>>, <<"4", "0">>, <<>>, <<>>),
     DeckEntry("Side", 1, NameXy, <<>>, <<>>, <<"K">>, LabelX)}

DeckLists == SeqsUpTo(DeckEntries, MaxDeck)

\* The rarity asset as canonical_sort_key finds it
SortAssets ==
    {MissingAsset, LoadedAsset(<<>>),
     LoadedAsset(<<<<"spell", TableB>>, <<"effect_monster", TableA>>>>)}

DeckInit ==
    /\ pf = [fn |-> "none"]
    /\ rq = RqParked
    /\ LimiterParked
    /\ CycleParked
    /\ SaveParked
    /\ ResolveParked
    /\ AppParked

DeckUnchanged == UNCHANGED <<limiterVars, rq, cycleVars, disk, rs, app>>

CallSelectRarityHierarchy ==
    /\ pf.fn = "none"
    /\ \E hierarchies \in TableSets, card \in TypedCards, label \in Labels :
          pf' = [fn |-> "select_rarity_hierarchy", hierarchies |-> hierarchies,
                 card |-> card, out |-> SelectRarityHierarchy(hierarchies, card),
                 label |-> label,
                 weight |-> RarityWeight(SelectRarityHierarchy(hierarchies, card), label)]
    /\ DeckUnchanged

CallCanonicalSortKey ==
    /\ pf.fn = "none"
    /\ \E entry \in DeckEntries, catalog \in {"loaded", "missing"}, asset \in SortAssets :
          pf' = [fn |-> "canonical_sort_key", entry |-> entry, catalog |-> catalog,
                 asset |-> asset, card |-> LookupCard(entry, catalog),
                 out |-> IF asset.t = "missing" THEN RaisedList
                         ELSE ListOf(CanonicalSortKey(entry, catalog, asset.tables))]
    /\ DeckUnchanged

CallCanonicalSortEntries ==
    /\ pf.fn = "none"
    /\ \E entries \in DeckLists, asset \in SortAssets :
          pf' = [fn |-> "canonical_sort_entries", entries |-> entries, asset |-> asset,
                 out |-> CanonicalSortEntries(entries, "loaded", asset)]
    /\ DeckUnchanged

CallSplitUpgradeRarities ==
    /\ pf.fn = "none"
    /\ \E rarities \in SeqsUpTo({LabelK, LabelU, LabelX, <<"u">>}, MaxDeck),
          hierarchy \in {TableA, TableB, <<>>},
          current_weight \in 0..MaxWeight :
          pf' = [fn |-> "_split_upgrade_rarities", rarities |-> rarities,
                 hierarchy |-> hierarchy, current_weight |-> current_weight,
                 out |-> SplitUpgradeRarities(rarities, hierarchy, current_weight)]
    /\ DeckUnchanged

DeckNext ==
    \/ CallSelectRarityHierarchy
    \/ CallCanonicalSortKey
    \/ CallCanonicalSortEntries
    \/ CallSplitUpgradeRarities

SpecDeck == DeckInit /\ [][DeckNext]_vars

(***************************************************************************)
(* Claims about the deck functions (SpecDeck).                             *)
(***************************************************************************)
\* C23: in the output of canonical_sort_entries every Main entry precedes
\* every Extra entry and every Extra entry precedes every Side entry,
\* whatever the other fields of the entries are.
C23_MainBeforeExtraBeforeSide ==
    (pf.fn = "canonical_sort_entries" /\ pf.out.t = "list") =>
        \A i, j \in 1..Len(pf.out.list) :
            i < j =>
                /\ ~(pf.out.list[i].section \in {"Extra", "Side"}
                        /\ pf.out.list[j].section = "Main")
                /\ ~(pf.out.list[i].section = "Side" /\ pf.out.list[j].section = "Extra")

\* C23 witness: a list given as Side, Extra, Main, in which the Side entry
\* has the least name and the Main entry the greatest, has come out as
\* Main, Extra, Side.
C23_Witness ==
    /\ pf.fn = "canonical_sort_entries"
    /\ pf.out.t = "list"
    /\ Len(pf.entries) = 3
    /\ pf.entries[1].section = "Side" /\ pf.entries[1].name_eng = <<"D", "m">>
    /\ pf.entries[2].section = "Extra"
    /\ pf.entries[3].section = "Main" /\ pf.entries[3].name_eng = <<"X", "y">>
    /\ pf.out.list = <<pf.entries[3], pf.entries[2], pf.entries[1]>>

\* C24: for a deck entry whose card is resolved neither by id nor by name,
\* the rarity-rank component of the canonical sort key (the fifth) is 0,
\* whatever the rarity label of the entry is.
C24_UnresolvedCardRanksZero ==
    (pf.fn = "canonical_sort_key" /\ pf.out.t = "list" /\ pf.card.t = "none") =>
        pf.out.list[5] = 0

\* C24 witness: the entry "Xy" with no card id is in no catalog, its label
\* is one the effect_monster table knows, and the key carries that weight.
C24_Witness ==
    /\ pf.fn = "canonical_sort_key"
    /\ pf.catalog = "loaded"
    /\ pf.entry.name_eng = <<"X", "y">>
    /\ pf.entry.card_id = <<>>
    /\ pf.entry.rarity = <<"U">>
    /\ pf.card.t = "none"
    /\ pf.out.t = "list"
    /\ pf.out.list[5] = 6

\* The weight of the i-th candidate of the call, 0 for a label that the
\* hierarchy does not have.
CandidateWeight(i) ==
    IF pf.rarities[i] \in DOMAIN pf.hierarchy THEN pf.hierarchy[pf.rarities[i]] ELSE 0

\* The candidates whose weight is in lo..hi
CandidatesWithin(lo, hi) ==
    {pf.rarities[i] : i \in {j \in 1..Len(pf.rarities) :
                                 lo <= CandidateWeight(j) /\ CandidateWeight(j) <= hi}}

\* The candidates whose weight is at least lo
CandidatesFrom(lo) ==
    {pf.rarities[i] : i \in {j \in 1..Len(pf.rarities) : lo <= CandidateWeight(j)}}

ListedIn(list) == {list[i] : i \in 1..Len(list)}

\* C25: in _split_upgrade_rarities, when the best candidate is at least 6
\* above current_weight, recommended is exactly the candidates of weight
\* >= current_weight + 6 and optional exactly those with current_weight <
\* weight <= current_weight + 5; the two are disjoint and together hold
\* every strictly higher candidate.
C25_SplitWhenBestIsFarAbove ==
    (pf.fn = "_split_upgrade_rarities"
        /\ CandidatesFrom(pf.current_weight + 6) # {}) =>
        /\ ListedIn(pf.out.recommended) = CandidatesFrom(pf.current_weight + 6)
        /\ ListedIn(pf.out.optional)
               = CandidatesWithin(pf.current_weight + 1, pf.current_weight + 5)
        /\ ListedIn(pf.out.recommended) \cap ListedIn(pf.out.optional) = {}
        /\ ListedIn(pf.out.recommended) \cup ListedIn(pf.out.optional)
               = CandidatesFrom(pf.current_weight + 1)

\* C25 witness: current_weight 1 and candidates of weight 6 and 7: the one
\* at current_weight + 6 is recommended, the one at current_weight + 5 is
\* optional.
C25_Witness ==
    /\ pf.fn = "_split_upgrade_rarities"
    /\ pf.current_weight = 1
    /\ pf.rarities = <<<<"U">>, <<"X">>>>
    /\ CandidateWeight(1) = 6 /\ CandidateWeight(2) = 7
    /\ pf.out.recommended = <<<<"X">>>>
    /\ pf.out.optional = <<<<"U">>>>

\* C26: in _split_upgrade_rarities, when no candidate is strictly above
\* current_weight (or there is no candidate) recommended and optional are
\* both empty; when the best candidate is 1 to 5 above, recommended is
\* empty and optional holds every strictly higher candidate.
C26_SplitWhenBestIsNear ==
    (pf.fn = "_split_upgrade_rarities"
        /\ CandidatesFrom(pf.current_weight + 6) = {}) =>
        /\ pf.out.recommended = <<>>
        /\ ListedIn(pf.out.optional) = CandidatesFrom(pf.current_weight + 1)
        /\ CandidatesFrom(pf.current_weight + 1) = {} => pf.out.optional = <<>>

\* C26 witness: current_weight 0 and candidates of weight 3, 2 and 0: none
\* is recommended, the two higher ones are optional.
C26_Witness ==
    /\ pf.fn = "_split_upgrade_rarities"
    /\ pf.current_weight = 0
    /\ pf.rarities = <<<<"K">>, <<"U">>, <<"X">>>>
    /\ CandidateWeight(1) = 3 /\ CandidateWeight(2) = 2 /\ CandidateWeight(3) = 0
    /\ pf.out.recommended = <<>>
    /\ pf.out.optional = <<<<"K">>, <<"U">>>>

\* The keys and the tables of the table set of the call
LoadedKeys == {pf.hierarchies[i][1] : i \in 1..Len(pf.hierarchies)}
LoadedTable(key) ==
    (CHOOSE item \in {pf.hierarchies[i] : i \in 1..Len(pf.hierarchies)} : item[1] = key)[2]

\* C27: select_rarity_hierarchy returns (and does not raise), for any table
\* set and any card or no card: the table of the classified key when it is
\* loaded, else the table of the default key effect_monster when that is
\* loaded, else some table of a non-empty set, else an empty table; and the
\* rank of a label that the returned table does not have is 0.
C27_SelectFallsBackAndNeverFails ==
    pf.fn = "select_rarity_hierarchy" =>
        LET key == RarityHierarchyKeyForCard(pf.card)
        IN  /\ key \in LoadedKeys => pf.out = LoadedTable(key)
            /\ (key \notin LoadedKeys /\ "effect_monster" \in LoadedKeys) =>
                  pf.out = LoadedTable("effect_monster")
            /\ (key \notin LoadedKeys /\ "effect_monster" \notin LoadedKeys
                   /\ LoadedKeys # {}) =>
                  \E k \in LoadedKeys : pf.out = LoadedTable(k)
            /\ LoadedKeys = {} => pf.out = <<>>
            /\ pf.label \notin DOMAIN pf.out => pf.weight = 0

\* C27 witness: a card of an unknown frame type whose type label says
\* pendulum effect, a table set with spell and effect_monster only: the
\* effect_monster table is returned, and a label it does not have ranks 0.
C27_Witness ==
    /\ pf.fn = "select_rarity_hierarchy"
    /\ pf.card = [t |-> "dict", frameType |-> "skill", type |-> {"pendulum", "effect"}]
    /\ LoadedKeys = {"spell", "effect_monster"}
    /\ pf.out = LoadedTable("effect_monster")
    /\ pf.out # LoadedTable("spell")
    /\ pf.label = <<"u">>
    /\ pf.weight = 0

(***************************************************************************)
(* A further claim about _request_payload (SpecRequest).                   *)
(***************************************************************************)
\* C28: in _request_payload backoff sleeps happen only between attempts:
\* a sleep begins only when another HTTP attempt is still to come, so a
\* request that fails on its 5th attempt returns without sleeping again,
\* and one request sleeps for backoff at most 4 times.
C28_SleepsOnlyBetweenAttempts ==
    /\ rq.pc = "sleep" => rq.gets < MAX_RETRIES
    /\ rq.sleeps <= MAX_RETRIES - 1

\* C28 witness: the request has returned its failure after 5 attempts and
\* 5 sleeps, the last of them after the 5th attempt.
C28_Witness ==
    /\ rq.pc = "returned"
    /\ ~rq.has_payload
    /\ rq.gets = MAX_RETRIES
    /\ rq.sleeps = MAX_RETRIES

(***************************************************************************)
(* Claims about the summary of ensure_prices (Spec).                       *)
(***************************************************************************)
\* The distinct valid ids of the cycle's input list.
DistinctValidIds == Range(cy.valid_ids)

\* C29: the summary a cycle returns satisfies ids_requested = ids_ok +
\* ids_failed, ids_requested <= number of distinct valid ids <= ids_valid <=
\* ids_total, and ids_nonzero <= number of distinct valid ids; ids_total is
\* the length of the input list.
C29_SummaryCountsAreConsistent ==
    cy.pc = "done" =>
        /\ cy.summary.t = "summary"
        /\ cy.summary.ids_requested = cy.summary.ids_ok + cy.summary.ids_failed
        /\ cy.summary.ids_requested <= Cardinality(DistinctValidIds)
        /\ Cardinality(DistinctValidIds) <= cy.summary.ids_valid
        /\ cy.summary.ids_valid <= cy.summary.ids_total
        /\ cy.summary.ids_nonzero <= Cardinality(DistinctValidIds)
        /\ cy.summary.ids_total = Len(cy.raw_ids)

\* C29 witness: a returned summary of a list with an invalid id and an id
\* listed twice, in which one id was fresh, one fetch succeeded, one failed,
\* and every distinct valid id ends with a positive price.
C29_Witness ==
    /\ cy.pc = "done"
    /\ cy.summary.ids_valid < cy.summary.ids_total
    /\ Cardinality(DistinctValidIds) < cy.summary.ids_valid
    /\ cy.summary.ids_requested < Cardinality(DistinctValidIds)
    /\ cy.summary.ids_ok >= 1
    /\ cy.summary.ids_failed >= 1
    /\ cy.summary.ids_nonzero = Cardinality(DistinctValidIds)

(***************************************************************************)
(* SpecApp: DeckApp of main.py with its DeckModel and the rows of its tree.*)
(* A row is the index of an entry in the model's list (the row's iid),     *)
(* counted from 1 here.                                                    *)
(***************************************************************************)
\* Entries that the form and the deck files supply
FormEntries ==
    {e \in DeckEntries : e.rarity \in {LabelK, LabelX} /\ e.name_eng \in {NameDm, NameXy}}

\* The entry lists that load_deck reads from files
DeckFiles == SeqsUpTo(FormEntries, MaxDeck)

\* The columns whose heading is clicked
SortColumns == {"amount", "section", "name_eng"}

Reversed(q) == [i \in 1..Len(q) |-> q[Len(q) + 1 - i]]

\* sort_key(item) of _sort_tree_by_column, written as a tuple of the shape
\* that canonical_sort_key returns, the places a column leaves out constant
ColumnSortKey(column, entry, tables) ==
    IF column = "amount" THEN <<entry.amount, <<>>, <<>>, <<>>, 0, <<>>, 0>>
    ELSE IF column = "name_eng"
    THEN <<0, SafeCasefold(entry.name_eng), <<>>, <<>>, 0, <<>>, 0>>
    ELSE CanonicalSortKey(entry, "loaded", tables)

\* sorted(list(enumerate(entries)), key=sort_key, reverse=desc): the indices
\* in displayed order; reverse=True keeps equal keys in their first order
OrderedRows(entries, column, desc, tables) ==
    LET pairs == [i \in 1..Len(entries) |->
                     <<ColumnSortKey(column, entries[i], tables), i>>]
    IN  IF desc THEN Reversed(SortedByKey(Reversed(pairs))) ELSE SortedByKey(pairs)

\* _refresh_tree: the rows in the order of the model's list
RowsOf(entries) == [i \in 1..Len(entries) |-> i]

\* _apply_canonical_sort followed by _reset_sort, on the list a handler has
\* just stored in the model; a FileNotFoundError of the sort ends the handler
ApplyCanonicalSortAndReset(a, entries) ==
    LET sorted == CanonicalSortEntries(entries, "loaded", a.asset)
    IN  IF sorted.t = "raised" THEN [a EXCEPT !.entries = entries]
        ELSE LET again == CanonicalSortEntries(sorted.list, "loaded", a.asset)
             IN  [a EXCEPT !.entries = again.list,
                           !.current_sort_column = PyNone,
                           !.current_sort_desc = FALSE,
                           !.rows = RowsOf(again.list)]

\* DeckApp.__init__: an empty model; a missing rarity asset is a warning
AppInit ==
    /\ \E asset \in SortAssets :
          app = [pc |-> "ready", asset |-> asset, entries |-> <<>>, rows |-> <<>>,
                 current_sort_column |-> PyNone, current_sort_desc |-> FALSE]
    /\ rq = RqParked
    /\ LimiterParked
    /\ CycleParked
    /\ PureParked
    /\ SaveParked
    /\ ResolveParked

AppUnchanged == UNCHANGED <<limiterVars, rq, cycleVars, pf, disk, rs>>

\* _add_entry with a valid form
AppAddEntry ==
    /\ app.pc = "ready"
    /\ Len(app.entries) < MaxDeck
    /\ \E entry \in FormEntries :
          app' = ApplyCanonicalSortAndReset(app, Append(app.entries, entry))
    /\ AppUnchanged

\* _update_entry with a row selected and a valid form; a row that the tree
\* still shows for an index the list no longer has is an IndexError
AppUpdateEntry ==
    /\ app.pc = "ready"
    /\ \E index \in Range(app.rows), entry \in FormEntries :
          app' = IF index > Len(app.entries) THEN app
                 ELSE ApplyCanonicalSortAndReset(app, [app.entries EXCEPT ![index] = entry])
    /\ AppUnchanged

\* _delete_entry with a row selected
AppDeleteEntry ==
    /\ app.pc = "ready"
    /\ \E index \in Range(app.rows) :
          app' = IF index > Len(app.entries) THEN app
                 ELSE ApplyCanonicalSortAndReset(app,
                         SubSeq(app.entries, 1, index - 1)
                             \o SubSeq(app.entries, index + 1, Len(app.entries)))
    /\ AppUnchanged

\* _load_deck of a file that load_deck reads
AppLoadDeck ==
    /\ app.pc = "ready"
    /\ \E entries \in DeckFiles :
          app' = ApplyCanonicalSortAndReset(app, entries)
    /\ AppUnchanged

\* _sort_tree_by_column: a click on the heading of a column
AppSortByColumn ==
    /\ app.pc = "ready"
    /\ \E column \in SortColumns :
          LET desc == IF app.current_sort_column = column
                      THEN ~app.current_sort_desc ELSE FALSE
              raises == /\ column = "section"
                        /\ app.asset.t = "missing"
                        /\ app.entries # <<>>
          IN  app' = [app EXCEPT !.current_sort_column = column,
                                 !.current_sort_desc = desc,
                                 !.rows = IF raises THEN app.rows
                                          ELSE OrderedRows(app.entries, column, desc,
                                                           app.asset.tables)]
    /\ AppUnchanged

AppNext ==
    \/ AppAddEntry
    \/ AppUpdateEntry
    \/ AppDeleteEntry
    \/ AppLoadDeck
    \/ AppSortByColumn

SpecApp == AppInit /\ [][AppNext]_vars

(***************************************************************************)
(* Claims about DeckApp (SpecApp).                                         *)
(***************************************************************************)
\* With the rarity asset loaded the model's list is the canonical sort of
\* itself in every state.
CanonicalWithAsset ==
    (app.pc = "ready" /\ app.asset.t = "loaded") =>
        CanonicalSortEntries(app.entries, "loaded", app.asset) = ListOf(app.entries)

\* A click on a column heading leaves the model's list as it is.
ColumnSortLeavesModel == [][AppSortByColumn => app'.entries = app.entries]_vars

\* C30: after any sequence of add, update, delete and load operations the
\* model's entry list is in canonical order: canonical_sort_entries of the
\* list returns the list itself.
C30_ModelStaysCanonical ==
    app.pc = "ready" =>
        CanonicalSortEntries(app.entries, "loaded", app.asset) = ListOf(app.entries)

\* C30 witness: the rarity asset is missing, two entries have been added,
\* and the model's list has a Side entry before a Main entry.
C30_Witness ==
    /\ app.pc = "ready"
    /\ app.asset.t = "missing"
    /\ Len(app.entries) = 2
    /\ app.entries[1].section = "Side"
    /\ app.entries[2].section = "Main"

====
